---- MODULE Spec2Model ----
\* Verification model of blvm-mesh: replay prevention (src/src/replay.rs),
\* routing table (src/src/routing.rs), route discovery (src/src/discovery.rs)
\* and the mesh manager (src/src/manager.rs).
EXTENDS Integers, Sequences, FiniteSets, TLC

\* ---------------------------------------------------------------- bounds
MaxTime == 2
MaxSeq == 1
MaxProof == 3
NumPeers == 2
NumCallers == 2
MaxCalls == 2
MaxConcCalls == 3
\* ReplayPrevention::new(expiry_seconds): the constructor argument, scaled down
ExpirySeconds == 1
NumNodes == 2
MaxAddr == 1
MaxCost == 1
MaxRouteOps == 4
MaxRouteLen == 2
MaxRequests == 2
MaxDiscOps == 3
MaxAdEntries == 1
MaxMgrOps == 2
MaxPeerEvents == 1
\* RoutingTable::new(route_expiry_seconds): the constructor argument, scaled down
RouteExpirySeconds == 1
\* RouteDiscovery::new(.., timeout_seconds): the constructor argument, scaled down
DiscoveryTimeoutSeconds == 1
\* base fees and route lengths given to calculate_routing_fee
MaxFee == 120
MaxHops == 5
\* handle_event calls in a run of the event specification
MaxEvents == 3
\* routing-table writes and packets in a run of the forwarding specification
MaxFwdOps == 2
MaxFwdCalls == 1
\* hops left in a RouteRequest
MaxReqHops == 2

\* ---------------------------------------------------------------- generic maps
\* DashMap<K, V> as a function on the set of its keys
EmptyMap == [x \in {} |-> 0]

MapInsert(m, k, v) == [x \in (DOMAIN m) \cup {k} |-> IF x = k THEN v ELSE m[x]]

MapRemove(m, ks) == [x \in (DOMAIN m) \ ks |-> m[x]]

\* ---------------------------------------------------------------- state
\* the clock: SystemTime::now() read by every operation
VARIABLE now

\* replay.rs: the two maps, each caller's position and locals, the history
VARIABLES replay_data, used_sequences
VARIABLES pc, args, expired_hashes, ret
VARIABLES ok_count, accepted_max, start_max, overlap
\* number of calls begun so far
VARIABLE calls

\* routing.rs: the three maps
VARIABLES routes, direct_peers, route_cache
\* keys of routes whose shard lock is held for ever by a stuck caller
VARIABLE rt_hung
\* discovery.rs
VARIABLES pending_requests, request_id_counter
\* last and previous operation on the routing table, with the last result
VARIABLES last, prev
\* add_direct_peer(n, _) then remove_direct_peer(n) with only reads around them
VARIABLE adr
\* number of routing operations begun so far
VARIABLE rops

\* manager.rs: the configuration read by MeshManager::new
VARIABLES enabled, mode
\* the last route_packet / handle_incoming_packet call: what it decided, what
\* it returned and how many times it called send_mesh_packet_to_peer
VARIABLE mcall
\* number of packet calls and of peer events begun so far
VARIABLES mops, pevents

\* the last call of a function that reads no state: its name, its arguments
\* and what it returned
VARIABLE fcall
\* the last two handle_event calls, oldest first
VARIABLE evs

\* the discover_route call each caller is in: where it is, what it asked for,
\* the id it took, when it began and the time it stamped
VARIABLE dr

\* the manager's Mutex around the replay guard: the task holding it (0 when
\* free), and where each task that takes it is, with the packet it routes
VARIABLE lk

fnVars == <<fcall, evs, dr, lk>>

mgrVars == <<enabled, mode, mcall, mops, pevents>>

routingState == <<routes, direct_peers, route_cache, rt_hung>>
discoveryState == <<pending_requests, request_id_counter>>
routingVars == <<routingState, discoveryState, last, prev, adr, rops>>

\* ================================================================ replay.rs

replayState == <<replay_data, used_sequences>>
replayProc == <<pc, args, expired_hashes, ret>>
replayHist == <<ok_count, accepted_max, start_max, overlap>>
replayVars == <<replayState, replayProc, replayHist>>

Peers == 1..NumPeers
Seqs == 0..MaxSeq
Callers == 1..NumCallers

\* the tasks that take the manager's Mutex: the callers of route_packet and
\* the cleanup task spawned by start
Sweeper == NumCallers + 1
Tasks == Callers \cup {Sweeper}

\* PaymentProof::Lightning, reduced to the fields the replay guard reads
\* odd preimages carry a long-lived invoice, even ones expire at once
ExpiresAt(i) == IF i % 2 = 1 THEN MaxTime ELSE 0

Proofs == {[preimage |-> i, expires_at |-> ExpiresAt(i)] : i \in 1..MaxProof}

\* PaymentProof::hash: SHA-256 of the serialization of every field (injective)
ProofHash(p) == p.preimage * (MaxTime + 1) + p.expires_at

Hashes == {ProofHash(p) : p \in Proofs}

\* PaymentProof::is_expired (Lightning): now > expires_at
IsExpired(p, t) == t > p.expires_at

NoArgs == [op |-> "none", proof |-> 0, peer |-> 0, sequence |-> 0]

InitReplay ==
    /\ replay_data = EmptyMap
    /\ used_sequences = EmptyMap
    /\ pc = [c \in Callers |-> "idle"]
    /\ args = [c \in Callers |-> NoArgs]
    /\ expired_hashes = [c \in Callers |-> {}]
    /\ ret = [c \in Callers |-> "none"]
    /\ ok_count = [h \in Hashes |-> 0]
    /\ accepted_max = [p \in Peers |-> -1]
    /\ start_max = [c \in Callers |-> -1]
    /\ overlap = [c \in Callers |-> {}]

InCall(c) == pc[c] # "idle"

\* entry of check_replay(proof, peer_id, sequence)
BeginCheckReplay(c, budget) ==
    /\ pc[c] = "idle"
    /\ calls < budget
    /\ calls' = calls + 1
    /\ \E p \in Proofs, peer \in Peers, s \in Seqs :
         /\ args' = [args EXCEPT ![c] =
                       [op |-> "check_replay", proof |-> p, peer |-> peer, sequence |-> s]]
         /\ start_max' = [start_max EXCEPT ![c] = accepted_max[peer]]
    /\ pc' = [pc EXCEPT ![c] = "sweep"]
    /\ ret' = [ret EXCEPT ![c] = "none"]
    /\ overlap' = [d \in Callers |->
                     IF d = c THEN {e \in Callers \ {c} : InCall(e)}
                     ELSE IF InCall(d) THEN overlap[d] \cup {c}
                     ELSE overlap[d] \ {c}]
    /\ UNCHANGED <<fnVars, mgrVars, routingVars, now, replayState, expired_hashes, ok_count, accepted_max>>

\* entry of cleanup_expired() called on its own (the periodic sweeper)
BeginCleanup(c, budget) ==
    /\ pc[c] = "idle"
    /\ calls < budget
    /\ calls' = calls + 1
    /\ args' = [args EXCEPT ![c] = [NoArgs EXCEPT !.op = "cleanup_expired"]]
    /\ pc' = [pc EXCEPT ![c] = "sweep"]
    /\ ret' = [ret EXCEPT ![c] = "none"]
    /\ overlap' = [d \in Callers |->
                     IF d = c THEN {} ELSE overlap[d] \ {c}]
    /\ UNCHANGED <<fnVars, mgrVars, routingVars, now, replayState, expired_hashes, ok_count, accepted_max, start_max>>

\* a sweep that collects a hash as soon as its age reaches expiry_seconds
ExpiredSetAtExpiry(data, t) == {h \in DOMAIN data : t >= data[h].timestamp + ExpirySeconds}

\* cleanup_expired, the iteration that collects the expired hashes
ExpiredSet(data, t) == {h \in DOMAIN data : t > data[h].timestamp + ExpirySeconds}

CleanupCollect(c) ==
    /\ pc[c] = "sweep"
    /\ expired_hashes' = [expired_hashes EXCEPT ![c] = ExpiredSet(replay_data, now)]
    /\ pc' = [pc EXCEPT ![c] = "remove"]
    /\ UNCHANGED <<fnVars, mgrVars, calls, routingVars, now, replayState, args, ret, replayHist>>

\* cleanup_expired, the removals; a standalone sweep returns here
CleanupRemove(c) ==
    /\ pc[c] = "remove"
    /\ replay_data' = MapRemove(replay_data, expired_hashes[c])
    /\ expired_hashes' = [expired_hashes EXCEPT ![c] = {}]
    /\ IF args[c].op = "cleanup_expired"
         THEN /\ pc' = [pc EXCEPT ![c] = "idle"]
              /\ ret' = [ret EXCEPT ![c] = "swept"]
         ELSE /\ pc' = [pc EXCEPT ![c] = "hash"]
              /\ ret' = ret
    /\ UNCHANGED <<fnVars, mgrVars, calls, routingVars, now, used_sequences, args, replayHist>>

\* if self.replay_data.contains_key(&proof_hash) { return Err(..) }
HashSeen(data, p) == ProofHash(p) \in DOMAIN data

CheckHash(c) ==
    /\ pc[c] = "hash"
    /\ IF HashSeen(replay_data, args[c].proof)
         THEN /\ pc' = [pc EXCEPT ![c] = "idle"]
              /\ ret' = [ret EXCEPT ![c] = "err_replay"]
         ELSE /\ pc' = [pc EXCEPT ![c] = "seq"]
              /\ ret' = ret
    /\ UNCHANGED <<fnVars, mgrVars, calls, routingVars, now, replayState, args, expired_hashes, replayHist>>

\* a sequence check that lets the stored sequence through again
SeqOutOfOrderBelow(used, peer, s) == peer \in DOMAIN used /\ s < used[peer]

\* if let Some(entry) = used_sequences.get(peer_id) { if sequence <= *entry { Err } }
SeqOutOfOrder(used, peer, s) == peer \in DOMAIN used /\ s <= used[peer]

CheckSeq(c) ==
    /\ pc[c] = "seq"
    /\ IF SeqOutOfOrder(used_sequences, args[c].peer, args[c].sequence)
         THEN /\ pc' = [pc EXCEPT ![c] = "idle"]
              /\ ret' = [ret EXCEPT ![c] = "err_sequence"]
         ELSE /\ pc' = [pc EXCEPT ![c] = "expiry"]
              /\ ret' = ret
    /\ UNCHANGED <<fnVars, mgrVars, calls, routingVars, now, replayState, args, expired_hashes, replayHist>>

\* an expiry check that has the hash recorded before it looks at the proof
CheckExpiryMarksFirst(c) ==
    /\ pc[c] = "expiry"
    /\ replay_data' = MapInsert(replay_data, ProofHash(args[c].proof),
                        [timestamp |-> now, peer_id |-> args[c].peer,
                         sequence |-> args[c].sequence])
    /\ IF IsExpired(args[c].proof, now)
         THEN /\ pc' = [pc EXCEPT ![c] = "idle"]
              /\ ret' = [ret EXCEPT ![c] = "err_expired"]
         ELSE /\ pc' = [pc EXCEPT ![c] = "insert_hash"]
              /\ ret' = ret
    /\ UNCHANGED <<fnVars, mgrVars, calls, routingVars, now, used_sequences, args, expired_hashes, replayHist>>

\* if proof.is_expired() { return Err(..) }
CheckExpiry(c) ==
    /\ pc[c] = "expiry"
    /\ IF IsExpired(args[c].proof, now)
         THEN /\ pc' = [pc EXCEPT ![c] = "idle"]
              /\ ret' = [ret EXCEPT ![c] = "err_expired"]
         ELSE /\ pc' = [pc EXCEPT ![c] = "insert_hash"]
              /\ ret' = ret
    /\ UNCHANGED <<fnVars, mgrVars, calls, routingVars, now, replayState, args, expired_hashes, replayHist>>

\* self.replay_data.insert(proof_hash, ReplayEntry { timestamp: now, peer_id, sequence })
InsertHash(c) ==
    /\ pc[c] = "insert_hash"
    /\ replay_data' = MapInsert(replay_data, ProofHash(args[c].proof),
                        [timestamp |-> now, peer_id |-> args[c].peer,
                         sequence |-> args[c].sequence])
    /\ pc' = [pc EXCEPT ![c] = "insert_seq"]
    /\ UNCHANGED <<fnVars, mgrVars, calls, routingVars, now, used_sequences, args, expired_hashes, ret, replayHist>>

\* self.used_sequences.insert(*peer_id, sequence); Ok(true)
InsertSeq(c) ==
    /\ pc[c] = "insert_seq"
    /\ used_sequences' = MapInsert(used_sequences, args[c].peer, args[c].sequence)
    /\ pc' = [pc EXCEPT ![c] = "idle"]
    /\ ret' = [ret EXCEPT ![c] = "ok"]
    /\ ok_count' = [ok_count EXCEPT ![ProofHash(args[c].proof)] =
                      IF @ < 2 THEN @ + 1 ELSE @]
    /\ accepted_max' = [accepted_max EXCEPT ![args[c].peer] =
                          IF args[c].sequence > @ THEN args[c].sequence ELSE @]
    /\ UNCHANGED <<fnVars, mgrVars, calls, routingVars, now, replay_data, args, expired_hashes, start_max, overlap>>

\* ================================================================ routing.rs
Nodes == 1..NumNodes
\* peer addresses as bytes; address 0 stands for bytes that are not UTF-8
Addrs == 0..MaxAddr
Costs == 0..MaxCost

\* Option<T>: None is the empty sequence, Some(x) the sequence <<x>>
None == << >>

Some(x) == <<x>>

\* the RoutingEntry built by add_direct_peer
DirectEntry(n, a, t) ==
    [node_id |-> n, direct_address |-> Some(a), next_hop |-> None,
     route_path |-> <<n>>, route_cost |-> 0, last_updated |-> t,
     quality_score |-> 10]

\* a multi-hop entry whose next hop is the first node of the path
HopEntryFirstNode(d, path, c, t, q) ==
    [node_id |-> d, direct_address |-> None, next_hop |-> Some(path[1]),
     route_path |-> path, route_cost |-> c, last_updated |-> t,
     quality_score |-> q]

\* the RoutingEntry built by handle_route_response (quality 0.8) and
\* handle_route_advertisement (quality 0.7); quality in tenths
HopEntry(d, path, c, t, q) ==
    [node_id |-> d, direct_address |-> None, next_hop |-> Some(path[2]),
     route_path |-> path, route_cost |-> c, last_updated |-> t,
     quality_score |-> q]

\* entry.direct_address.is_some() && entry.next_hop.is_none()
IsDirectOnly(e) == e.direct_address # None /\ e.next_hop = None

\* now > last_updated + route_expiry_seconds
RouteExpired(e, t) == t > e.last_updated + RouteExpirySeconds

InitRouting ==
    /\ routes = EmptyMap
    /\ direct_peers = EmptyMap
    /\ route_cache = EmptyMap
    /\ rt_hung = {}
    /\ pending_requests = EmptyMap
    /\ request_id_counter = 0
    /\ last = [op |-> "none", node |-> 0, res |-> None, status |-> "ok"]
    /\ prev = [op |-> "none", node |-> 0, status |-> "ok"]
    /\ adr = [node |-> 0, phase |-> "none"]
    /\ rops = 0

\* bookkeeping shared by every routing operation
Record(op, n, res, status) ==
    /\ last' = [op |-> op, node |-> n, res |-> res, status |-> status]
    /\ prev' = [op |-> last.op, node |-> last.node, status |-> last.status]
    /\ rops < MaxRouteOps
    /\ rops' = rops + 1

\* RoutingTable::add_direct_peer: the insert into routes waits for ever on a
\* shard whose lock a stuck caller holds
AddDirectPeerOp(n, a) ==
    /\ direct_peers' = MapInsert(direct_peers, n, a)
    /\ IF n \in rt_hung
         THEN routes' = routes /\ Record("add_direct_peer", n, None, "blocked")
         ELSE /\ routes' = MapInsert(routes, n, DirectEntry(n, a, now))
              /\ Record("add_direct_peer", n, None, "ok")
    /\ adr' = [node |-> n, phase |-> "added"]
    /\ UNCHANGED <<fnVars, mgrVars, now, replayVars, calls, route_cache, rt_hung, discoveryState>>

\* RoutingTable::remove_direct_peer: routes.remove is called while the Ref
\* returned by routes.get is alive, i.e. with the shard's read lock held
RemoveBlocks(rts, n) == n \in DOMAIN rts /\ IsDirectOnly(rts[n])

RemoveDirectPeerOp(n) ==
    /\ direct_peers' = MapRemove(direct_peers, {n})
    /\ IF RemoveBlocks(routes, n)
         THEN /\ rt_hung' = rt_hung \cup {n}
              /\ Record("remove_direct_peer", n, None, "blocked")
         ELSE /\ rt_hung' = rt_hung
              /\ Record("remove_direct_peer", n, None, "ok")
    /\ routes' = routes
    /\ adr' = IF adr = [node |-> n, phase |-> "added"]
                THEN [node |-> n, phase |-> "removed"]
                ELSE [node |-> 0, phase |-> "none"]
    /\ UNCHANGED <<fnVars, mgrVars, now, replayVars, calls, route_cache, discoveryState>>

\* RoutingTable::add_route, as a function of the table
AddRoute(rts, e) == MapInsert(rts, e.node_id, e)

\* entries a caller of add_route can pass: multi-hop entries stamped now or 0
AddRouteArgs(t) ==
    {HopEntry(d, <<s, d>>, c, u, 8) : d \in Nodes, s \in Nodes, c \in Costs, u \in {0, t}}

AddRouteOp(e) ==
    /\ IF e.node_id \in rt_hung
         THEN routes' = routes /\ Record("add_route", e.node_id, None, "blocked")
         ELSE routes' = AddRoute(routes, e) /\ Record("add_route", e.node_id, None, "ok")
    /\ adr' = [node |-> 0, phase |-> "none"]
    /\ UNCHANGED <<fnVars, mgrVars, now, replayVars, calls, direct_peers, route_cache, rt_hung, discoveryState>>

\* RoutingTable::get_route
GetRoute(rts, n) == IF n \in DOMAIN rts THEN Some(rts[n]) ELSE None

\* whether a reader that asks for the shard of a key a stuck caller holds is
\* let in depends on the lock's fairness: both outcomes
ReadBlocks(n) == IF n \in rt_hung THEN BOOLEAN ELSE {FALSE}

GetRouteOp(n) ==
    /\ \E blocked \in ReadBlocks(n) :
            IF blocked THEN Record("get_route", n, None, "blocked")
                       ELSE Record("get_route", n, GetRoute(routes, n), "ok")
    /\ UNCHANGED <<fnVars, mgrVars, now, replayVars, calls, routingState, discoveryState, adr>>

\* RoutingTable::find_route: the value returned
FindRoute(cache, rts, d, t) ==
    IF d \in DOMAIN cache THEN Some(cache[d])
    ELSE IF d \in DOMAIN rts /\ ~RouteExpired(rts[d], t) THEN Some(rts[d].route_path)
    ELSE None

\* RoutingTable::find_route: the cache it leaves
FindRouteCache(cache, rts, d, t) ==
    IF d \notin DOMAIN cache /\ d \in DOMAIN rts /\ ~RouteExpired(rts[d], t)
      THEN MapInsert(cache, d, rts[d].route_path)
      ELSE cache

FindRouteOp(d) ==
    /\ \E blocked \in (IF d \in DOMAIN route_cache THEN {FALSE} ELSE ReadBlocks(d)) :
            IF blocked
              THEN /\ Record("find_route", d, None, "blocked")
                   /\ route_cache' = route_cache
              ELSE /\ Record("find_route", d, FindRoute(route_cache, routes, d, now), "ok")
                   /\ route_cache' = FindRouteCache(route_cache, routes, d, now)
    /\ UNCHANGED <<fnVars, mgrVars, now, replayVars, calls, routes, direct_peers, rt_hung, discoveryState, adr>>

\* a cleanup_expired that expires direct peers like any other entry
ExpiredRoutesUnpinned(rts, t) == {n \in DOMAIN rts : RouteExpired(rts[n], t)}

\* RoutingTable::cleanup_expired: the keys it collects
ExpiredRoutes(rts, t) ==
    {n \in DOMAIN rts :
        RouteExpired(rts[n], t)
        /\ (rts[n].direct_address = None \/ rts[n].next_hop # None)}

\* RoutingTable::cleanup_expired: the table and cache it can leave. The
\* removals stop at the first key whose shard is locked for ever, in the map's
\* iteration order, and so may the iteration; the cache is cleared only by a
\* sweep that ends
CleanupOutcomes(rts, cache, hung, t) ==
    LET expired == ExpiredRoutes(rts, t)
    IN (IF expired \cap hung = {}
          THEN {[routes |-> MapRemove(rts, expired), cache |-> EmptyMap, status |-> "ok"]}
          ELSE {[routes |-> MapRemove(rts, done), cache |-> cache, status |-> "blocked"] :
                    done \in SUBSET (expired \ hung)})
       \cup (IF hung # {}
               THEN {[routes |-> rts, cache |-> cache, status |-> "blocked"]}
               ELSE {})

RtCleanupExpiredOp ==
    /\ \E o \in CleanupOutcomes(routes, route_cache, rt_hung, now) :
          /\ routes' = o.routes
          /\ route_cache' = o.cache
          /\ Record("cleanup_expired", 0, None, o.status)
    /\ adr' = [node |-> 0, phase |-> "none"]
    /\ UNCHANGED <<fnVars, mgrVars, now, replayVars, calls, direct_peers, rt_hung, discoveryState>>

\* ================================================================ discovery.rs
ReqIds == 1..MaxRequests

\* route carried by a RouteResponse: any node list of 1..MaxRouteLen elements
RoutePaths == UNION {[1..k -> Nodes] : k \in 1..MaxRouteLen}

\* RouteDiscovery::discover_route: the value returned
DiscoverRoute(cache, rts, d, src, t) ==
    IF FindRoute(cache, rts, d, t) # None THEN FindRoute(cache, rts, d, t)
    ELSE IF d \in DOMAIN rts /\ rts[d].direct_address # None THEN Some(<<src, d>>)
    ELSE None

\* RouteDiscovery::discover_route: a miss allocates the next id and records a
\* pending request stamped now
DiscoverRouteOp(d, src) ==
    /\ d \notin rt_hung
    /\ Record("discover_route", d, DiscoverRoute(route_cache, routes, d, src, now), "ok")
    /\ DiscoverRoute(route_cache, routes, d, src, now) = None
            => request_id_counter < MaxRequests
    /\ route_cache' = FindRouteCache(route_cache, routes, d, now)
    /\ IF DiscoverRoute(route_cache, routes, d, src, now) = None
         THEN /\ request_id_counter' = request_id_counter + 1
              /\ pending_requests' = MapInsert(pending_requests, request_id_counter + 1,
                    [destination |-> d, source |-> src,
                     request_id |-> request_id_counter + 1,
                     timestamp |-> now, responders |-> << >>])
         ELSE UNCHANGED discoveryState
    /\ UNCHANGED <<fnVars, mgrVars, now, replayVars, calls, routes, direct_peers, rt_hung, adr>>

\* RouteRequest messages a neighbour can send
RouteRequests == [destination : Nodes, source : Nodes, request_id : ReqIds,
                  max_hops : 0..MaxReqHops]

\* RouteDiscovery::handle_route_request: the value returned. A route from
\* find_route is answered as it is stored; without one, an entry whose route
\* has one node is answered with [source, destination]; the branch on
\* max_hops only logs, and the call returns None with or without hops left
HandleRouteRequest(cache, rts, req, t) ==
    LET found == FindRoute(cache, rts, req.destination, t)
        entry == GetRoute(rts, req.destination)
    IN IF found # None
         THEN Some([destination |-> req.destination, source |-> req.source,
                    request_id |-> req.request_id, route |-> found[1],
                    cost |-> Len(found[1]) * 100])
       ELSE IF entry # None /\ Len(entry[1].route_path) = 1
         THEN Some([destination |-> req.destination, source |-> req.source,
                    request_id |-> req.request_id,
                    route |-> <<req.source, req.destination>>, cost |-> 0])
       ELSE None

\* RouteDiscovery::handle_route_request: the route of the response returned
\* is recorded, and find_route fills the cache on the way
HandleRouteRequestOp(req, from) ==
    /\ \E blocked \in (IF req.destination \in DOMAIN route_cache THEN {FALSE}
                       ELSE ReadBlocks(req.destination)) :
            IF blocked
              THEN /\ Record("handle_route_request", req.destination, None, "blocked")
                   /\ route_cache' = route_cache
              ELSE LET r == HandleRouteRequest(route_cache, routes, req, now)
                   IN /\ Record("handle_route_request", req.destination,
                                IF r = None THEN None ELSE Some(r[1].route), "ok")
                      /\ route_cache' = FindRouteCache(route_cache, routes,
                                                       req.destination, now)
    /\ UNCHANGED <<fnVars, mgrVars, now, replayVars, calls, routes, direct_peers, rt_hung,
                   discoveryState, adr>>

\* a caller that is in no discover_route call
NoDiscover == [pc |-> "idle", destination |-> 0, source |-> 0, id |-> 0, began |-> 0,
               timestamp |-> 0]

\* a next_request_id that hands out the counter without advancing it
NextRequestIdStale(counter) == counter

\* RouteDiscovery::next_request_id, under the counter's write lock: the
\* counter after the call, which is the id returned
NextRequestId(counter) == counter + 1

\* discover_route, caller c: the two lookups; a route found is returned
DrBegin(c, d, src) ==
    /\ dr[c].pc = "idle"
    /\ dr' = [dr EXCEPT ![c] =
                [NoDiscover EXCEPT !.pc = IF DiscoverRoute(route_cache, routes, d, src, now)
                                              = None
                                           THEN "missed" ELSE "found",
                                   !.destination = d, !.source = src, !.began = now]]
    /\ route_cache' = FindRouteCache(route_cache, routes, d, now)
    /\ UNCHANGED <<fcall, evs, lk, mgrVars, now, replayVars, calls, routes, direct_peers,
                   rt_hung, discoveryState, last, prev, adr, rops>>

\* discover_route, caller c: next_request_id().await
DrNextId(c) ==
    /\ dr[c].pc = "missed"
    /\ request_id_counter < MaxRequests
    /\ request_id_counter' = NextRequestId(request_id_counter)
    /\ dr' = [dr EXCEPT ![c].pc = "id", ![c].id = NextRequestId(request_id_counter)]
    /\ UNCHANGED <<fcall, evs, lk, mgrVars, now, replayVars, calls, routingState,
                   pending_requests, last, prev, adr, rops>>

\* discover_route, caller c: SystemTime::now()
DrStamp(c) ==
    /\ dr[c].pc = "id"
    /\ dr' = [dr EXCEPT ![c].pc = "stamped", ![c].timestamp = now]
    /\ UNCHANGED <<fcall, evs, lk, mgrVars, now, replayVars, calls, routingVars>>

\* discover_route, caller c: the insert under the write lock of
\* pending_requests, which is held until the call returns Ok(None)
DrInsert(c) ==
    /\ dr[c].pc = "stamped"
    /\ pending_requests' = MapInsert(pending_requests, dr[c].id,
            [destination |-> dr[c].destination, source |-> dr[c].source,
             request_id |-> dr[c].id, timestamp |-> dr[c].timestamp,
             responders |-> << >>])
    /\ dr' = [dr EXCEPT ![c].pc = "returned"]
    /\ UNCHANGED <<fcall, evs, lk, mgrVars, now, replayVars, calls, routingState,
                   request_id_counter, last, prev, adr, rops>>

\* a handle_route_response that leaves the answered request pending
KeepPending(pending, id) == pending

\* handle_route_response: pending.remove(request_id)
RemovePending(pending, id) == MapRemove(pending, {id})

\* RouteDiscovery::handle_route_response. route[1] panics on a route shorter
\* than two nodes, after the responder was pushed; add_route on a key whose
\* shard is locked for ever never returns
HandleRouteResponseOp(m, from) ==
    /\ IF m.request_id \in DOMAIN pending_requests
         THEN LET pushed == [pending_requests EXCEPT ![m.request_id].responders =
                                Append(@, from)]
              IN IF Len(m.route) < 2
                   THEN /\ pending_requests' = pushed
                        /\ routes' = routes
                        /\ Record("handle_route_response", m.destination, None, "panic")
                 ELSE IF m.destination \in rt_hung
                   THEN /\ pending_requests' = pushed
                        /\ routes' = routes
                        /\ Record("handle_route_response", m.destination, None, "blocked")
                 ELSE /\ pending_requests' = RemovePending(pending_requests, m.request_id)
                      /\ routes' = AddRoute(routes,
                            HopEntry(m.destination, m.route, m.cost, now, 8))
                      /\ Record("handle_route_response", m.destination, None, "ok")
         ELSE /\ UNCHANGED <<pending_requests, routes>>
              /\ Record("handle_route_response", m.destination, None, "ok")
    /\ adr' = [node |-> 0, phase |-> "none"]
    /\ UNCHANGED <<fnVars, mgrVars, now, replayVars, calls, direct_peers, route_cache, rt_hung,
                   request_id_counter>>

\* the entries of a RouteAdvertisement applied in order up to the first one
\* whose add_route never returns
RECURSIVE ApplyAdvertisement(_, _, _, _, _)
ApplyAdvertisement(rts, hung, src, ads, t) ==
    IF ads = << >> \/ Head(ads).destination \in hung THEN rts
    ELSE ApplyAdvertisement(
            AddRoute(rts, HopEntry(Head(ads).destination,
                                   <<src, Head(ads).next_hop, Head(ads).destination>>,
                                   Head(ads).cost, t, 7)),
            hung, src, Tail(ads), t)

AdEntries == [destination : Nodes, next_hop : Nodes, cost : Costs]

AdLists == UNION {[1..k -> AdEntries] : k \in 0..MaxAdEntries}

\* RouteDiscovery::handle_route_advertisement
HandleRouteAdvertisementOp(src, ads) ==
    /\ routes' = ApplyAdvertisement(routes, rt_hung, src, ads, now)
    /\ Record("handle_route_advertisement", src, None,
              IF \E i \in 1..Len(ads) : ads[i].destination \in rt_hung
                THEN "blocked" ELSE "ok")
    /\ adr' = [node |-> 0, phase |-> "none"]
    /\ UNCHANGED <<fnVars, mgrVars, now, replayVars, calls, direct_peers, route_cache, rt_hung,
                   discoveryState>>

\* a cleanup_expired that purges a request as soon as its age reaches the timeout
ExpiredRequestsAtTimeout(pending, t) ==
    {id \in DOMAIN pending : t >= pending[id].timestamp + DiscoveryTimeoutSeconds}

\* RouteDiscovery::cleanup_expired: the request ids it collects
ExpiredRequests(pending, t) ==
    {id \in DOMAIN pending : t > pending[id].timestamp + DiscoveryTimeoutSeconds}

\* RouteDiscovery::cleanup_expired: the map it leaves
DiscoveryCleanupExpired(pending, t) == MapRemove(pending, ExpiredRequests(pending, t))

\* ================================================================ packet.rs
MESH_PACKET_VERSION == 1
MAX_PACKET_SIZE == 1000000

\* the all-zero node id
ZeroNode == 0

\* MeshManager.node_id
MyNodeId == 1

\* a payload: its length, what its first bytes are and, for a Bitcoin-framed
\* message, the class of the command in bytes 4..12
Payload(len, head, command) == [len |-> len, head |-> head, command |-> command]

EmptyPayload == Payload(0, "other", "other")
BitcoinPayload == Payload(24, "bitcoin_magic", "bitcoin")
MeshPayload == Payload(4, "mesh_magic", "other")
\* fills a two-hop packet without proof to MAX_PACKET_SIZE exactly
FullPayload == Payload(MAX_PACKET_SIZE - 146, "other", "other")

Payloads == {BitcoinPayload, MeshPayload}

\* MeshPacket::serialized_size
SerializedSize(p) ==
    82 + Len(p.route) * 32
       + (IF p.payment_proof # None THEN 500 ELSE 0)
       + p.payload.len
       + (IF p.metadata # None THEN 100 ELSE 0)

\* MeshPacket::validate returns Ok
Validate(p) ==
    /\ p.version = MESH_PACKET_VERSION
    /\ SerializedSize(p) <= MAX_PACKET_SIZE
    /\ p.route # << >>
    /\ p.route[1] = p.source
    /\ p.route[Len(p.route)] = p.destination
    /\ ~(p.packet_type = "Paid" /\ p.payment_proof = None)

\* MeshPacket::is_for_me
IsForMe(p, me) == p.destination = me

InRoute(route, n) == \E i \in 1..Len(route) : route[i] = n

\* a should_forward that does not look at the route
ShouldForwardAnyRoute(p, me) == ~IsForMe(p, me)

\* MeshPacket::should_forward
ShouldForward(p, me) == ~IsForMe(p, me) /\ InRoute(p.route, me)

\* MeshPacket::add_to_route: insert before the destination unless present
AddToRoute(route, n) ==
    IF InRoute(route, n) THEN route
    ELSE SubSeq(route, 1, Len(route) - 1) \o <<n>> \o <<route[Len(route)]>>

\* network.rs serialize_mesh_packet returns Ok: it validates the packet again
SerializeOk(p) == Validate(p)

\* a packet routed from its source straight to its destination; it is Paid
\* when it carries a proof
DirectPacket(src, d, q, pf, pl) ==
    [version |-> MESH_PACKET_VERSION,
     packet_type |-> IF pf # None THEN "Paid" ELSE "BitcoinP2P",
     source |-> src, destination |-> d, route |-> <<src, d>>, sequence |-> q,
     payment_proof |-> pf, payload |-> pl, metadata |-> None]

DirectPackets ==
    {DirectPacket(src, d, q, pf, pl) :
        src \in Nodes, d \in Nodes, q \in Seqs,
        pf \in {None} \cup {Some(x) : x \in Proofs}, pl \in Payloads}

\* packets with one structural defect
DefectPackets ==
    UNION {{[p EXCEPT !.version = MESH_PACKET_VERSION + 1],
            [p EXCEPT !.route = << >>],
            [p EXCEPT !.route = <<p.destination, p.destination>>],
            [p EXCEPT !.route = <<p.source, p.source>>],
            [p EXCEPT !.destination = ZeroNode, !.route = <<p.source, ZeroNode>>],
            [p EXCEPT !.payment_proof = None],
            [p EXCEPT !.payload = EmptyPayload],
            [p EXCEPT !.payload = FullPayload],
            [p EXCEPT !.payload = FullPayload, !.payment_proof = None,
                      !.packet_type = "BitcoinP2P"]} :
           p \in {DirectPacket(src, d, 0, Some(x), MeshPayload) :
                    src \in Nodes, d \in Nodes, x \in {y \in Proofs : y.preimage = 1}}}

\* packets that reach this node on their way: its id is already in the route
RelayedPackets ==
    {[DirectPacket(src, src, 0, None, pl) EXCEPT !.route = <<src, MyNodeId, src>>] :
        src \in Nodes \ {MyNodeId}, pl \in Payloads}

Packets == DirectPackets \cup DefectPackets \cup RelayedPackets

\* packets handed to handle_incoming_packet, which reads neither the sequence
\* nor the content of the proof
IncomingPackets ==
    {p \in Packets : p.sequence = 0
        /\ (p.payment_proof = None \/ p.payment_proof[1].preimage = 1)}

\* ================================================================ routing_policy.rs
Modes == {"BitcoinOnly", "PaymentGated", "Open"}

\* RoutingPolicyEngine::detect_protocol
DetectProtocol(m) ==
    IF m.len >= 12 /\ m.head = "bitcoin_magic" /\ m.command = "bitcoin"
      THEN "BitcoinP2P"
    ELSE IF m.len >= 12 /\ m.head = "bitcoin_magic" /\ m.command = "governance"
      THEN "CommonsGovernance"
    ELSE IF m.len >= 2 /\ m.head = "stratum_tag" THEN "StratumV2"
    ELSE IF m.len >= 4 /\ m.head = "mesh_magic" THEN "MeshPacket"
    ELSE "Unknown"

\* a determine_policy that lets unknown traffic through in Bitcoin-only mode
DeterminePolicyUnknownFree(protocol, md) ==
    IF protocol \in {"BitcoinP2P", "CommonsGovernance", "StratumV2"} THEN "Free"
    ELSE IF md = "Open" \/ (md = "BitcoinOnly" /\ protocol = "Unknown") THEN "Free"
    ELSE "PaymentRequired"

\* RoutingPolicyEngine::determine_policy
DeterminePolicy(protocol, md) ==
    IF protocol \in {"BitcoinP2P", "CommonsGovernance", "StratumV2"} THEN "Free"
    ELSE IF md = "Open" THEN "Free"
    ELSE "PaymentRequired"

\* ---- detect_protocol on the bytes of a message (a sequence of 0..255)
\* the three network magics as the four bytes from_le_bytes reads them from:
\* 0xd9b4bef9 mainnet, 0x0709110b testnet, 0xdab5bffa regtest
BitcoinMagics == {<<249, 190, 180, 217>>, <<11, 17, 9, 7>>, <<250, 191, 181, 218>>}

\* b"MESH"
MeshMagic == <<77, 69, 83, 72>>

\* str::trim_end_matches('\0')
RECURSIVE TrimEndNul(_)
TrimEndNul(c) ==
    IF c # << >> /\ c[Len(c)] = 0 THEN TrimEndNul(SubSeq(c, 1, Len(c) - 1)) ELSE c

\* is_bitcoin_command: the names it matches, as ASCII
BitcoinCommands ==
    {<<118, 101, 114, 115, 105, 111, 110>>,               \* version
     <<118, 101, 114, 97, 99, 107>>,                      \* verack
     <<112, 105, 110, 103>>,                              \* ping
     <<112, 111, 110, 103>>,                              \* pong
     <<103, 101, 116, 104, 101, 97, 100, 101, 114, 115>>, \* getheaders
     <<104, 101, 97, 100, 101, 114, 115>>,                \* headers
     <<103, 101, 116, 98, 108, 111, 99, 107, 115>>,       \* getblocks
     <<98, 108, 111, 99, 107>>,                           \* block
     <<103, 101, 116, 100, 97, 116, 97>>,                 \* getdata
     <<105, 110, 118>>,                                   \* inv
     <<116, 120>>,                                        \* tx
     <<110, 111, 116, 102, 111, 117, 110, 100>>,          \* notfound
     <<103, 101, 116, 97, 100, 100, 114>>,                \* getaddr
     <<97, 100, 100, 114>>,                               \* addr
     <<109, 101, 109, 112, 111, 111, 108>>,               \* mempool
     <<102, 101, 101, 102, 105, 108, 116, 101, 114>>,     \* feefilter
     <<115, 101, 110, 100, 104, 101, 97, 100, 101, 114, 115>>, \* sendheaders
     <<115, 101, 110, 100, 99, 109, 112, 99, 116>>,       \* sendcmpct
     <<99, 109, 112, 99, 116, 98, 108, 111, 99, 107>>,    \* cmpctblock
     <<103, 101, 116, 98, 108, 111, 99, 107, 116, 120, 110>>, \* getblocktxn
     <<98, 108, 111, 99, 107, 116, 120, 110>>,            \* blocktxn
     <<103, 101, 116, 99, 102, 105, 108, 116, 101, 114, 115>>, \* getcfilters
     <<99, 102, 105, 108, 116, 101, 114>>,                \* cfilter
     <<103, 101, 116, 99, 102, 104, 101, 97, 100, 101, 114, 115>>, \* getcfheaders
     <<99, 102, 104, 101, 97, 100, 101, 114, 115>>,       \* cfheaders
     <<103, 101, 116, 99, 102, 99, 104, 101, 99, 107, 112, 116>>, \* getcfcheckpt
     <<99, 102, 99, 104, 101, 99, 107, 112, 116>>,        \* cfcheckpt
     <<115, 101, 110, 100, 112, 107, 103, 116, 120, 110>>, \* sendpkgtxn
     <<112, 107, 103, 116, 120, 110>>,                    \* pkgtxn
     <<112, 107, 103, 116, 120, 110, 114, 101, 106, 101, 99, 116>>} \* pkgtxnreject

\* is_governance_command
GovernanceCommands ==
    {<<101, 99, 111, 110, 114, 101, 103>>,                \* econreg
     <<101, 99, 111, 110, 118, 101, 116, 111>>,           \* econveto
     <<101, 99, 111, 110, 115, 116, 97, 116>>,            \* econstat
     <<101, 99, 111, 110, 102, 111, 114, 107>>,           \* econfork
     <<103, 101, 116, 98, 97, 110, 108, 105, 115, 116>>,  \* getbanlist
     <<98, 97, 110, 108, 105, 115, 116>>}                 \* banlist

\* is_stratum_v2_message: the little-endian u16 tag in bytes 0..2
IsStratumV2Message(message) ==
    IF Len(message) >= 2
      THEN LET tag == message[1] + 256 * message[2]
           IN (256 <= tag /\ tag <= 511) \/ (512 <= tag /\ tag <= 767)
      ELSE FALSE

\* a detect_protocol that takes the command from the 12 bytes after the magic
DetectProtocolLongCommand(message) ==
    LET command == TrimEndNul(SubSeq(message, 5, IF Len(message) >= 16 THEN 16 ELSE 12))
    IN IF Len(message) >= 12 /\ SubSeq(message, 1, 4) \in BitcoinMagics
            /\ command \in BitcoinCommands
         THEN "BitcoinP2P"
       ELSE IF Len(message) >= 12 /\ SubSeq(message, 1, 4) \in BitcoinMagics
            /\ command \in GovernanceCommands
         THEN "CommonsGovernance"
       ELSE IF IsStratumV2Message(message) THEN "StratumV2"
       ELSE IF Len(message) >= 4 /\ SubSeq(message, 1, 4) = MeshMagic THEN "MeshPacket"
       ELSE "Unknown"

\* RoutingPolicyEngine::detect_protocol. The command is bytes 4..12 with the
\* trailing NULs trimmed; the names matched are ASCII, so the lossy UTF-8
\* conversion decides nothing
DetectProtocolBytes(message) ==
    LET magic == Len(message) >= 4 /\ SubSeq(message, 1, 4) \in BitcoinMagics
        command == TrimEndNul(SubSeq(message, 5, 12))
    IN IF magic /\ Len(message) >= 12 /\ command \in BitcoinCommands
         THEN "BitcoinP2P"
       ELSE IF magic /\ Len(message) >= 12 /\ command \in GovernanceCommands
         THEN "CommonsGovernance"
       ELSE IF Len(message) >= 2 /\ IsStratumV2Message(message) THEN "StratumV2"
       ELSE IF Len(message) >= 4 /\ message[1] = 77 /\ message[2] = 69
               /\ message[3] = 83 /\ message[4] = 72
         THEN "MeshPacket"
       ELSE "Unknown"

\* the five values of DetectedProtocol
Protocols == {"BitcoinP2P", "CommonsGovernance", "StratumV2", "MeshPacket", "Unknown"}

\* ---- u64 arithmetic: a u64 is four 16-bit limbs, least significant first
Limb == 65536

U64(v) == <<v % Limb, (v \div Limb) % Limb, 0, 0>>

\* x * k with its carry out as one more limb (k below 2^15)
RECURSIVE MulCarry(_, _, _)
MulCarry(x, k, carry) ==
    IF x = << >> THEN <<carry>>
    ELSE <<(Head(x) * k + carry) % Limb>>
            \o MulCarry(Tail(x), k, (Head(x) * k + carry) \div Limb)

\* x + y with its carry out as one more limb
RECURSIVE AddCarry(_, _, _)
AddCarry(x, y, carry) ==
    IF x = << >> THEN <<carry>>
    ELSE <<(Head(x) + Head(y) + carry) % Limb>>
            \o AddCarry(Tail(x), Tail(y), (Head(x) + Head(y) + carry) \div Limb)

Reverse(x) == [i \in 1..Len(x) |-> x[Len(x) + 1 - i]]

\* long division by k, most significant limb first
RECURSIVE DivLimbs(_, _, _)
DivLimbs(x, k, rem) ==
    IF x = << >> THEN << >>
    ELSE <<(rem * Limb + Head(x)) \div k>>
            \o DivLimbs(Tail(x), k, (rem * Limb + Head(x)) % k)

\* x / k, truncated
DivSmall(x, k) == Reverse(DivLimbs(Reverse(x), k, 0))

\* x <= y for numbers of the same number of limbs
RECURSIVE LeqMsf(_, _)
LeqMsf(x, y) ==
    IF x = << >> THEN TRUE
    ELSE IF Head(x) # Head(y) THEN Head(x) < Head(y)
    ELSE LeqMsf(Tail(x), Tail(y))

Leq(x, y) == LeqMsf(Reverse(x), Reverse(y))

\* the low 64 bits of a product and whether it exceeded them
Wrapped(m) == SubSeq(m, 1, 4)

Overflows(m) == m[5] # 0

\* RoutingTable::calculate_routing_fee on a route of hops nodes: what the
\* call can give. A product beyond u64 panics in a build with overflow
\* checks and wraps in one without
CalculateRoutingFee(fee, hops) ==
    LET m60 == MulCarry(fee, 60, 0)
        m30 == MulCarry(fee, 30, 0)
        m10 == MulCarry(fee, 10, 0)
        given == [panic |-> FALSE, total |-> fee,
                  destination |-> DivSmall(Wrapped(m60), 100),
                  intermediate |-> IF hops > 2
                                     THEN DivSmall(DivSmall(Wrapped(m30), 100), hops - 2)
                                     ELSE U64(0),
                  source |-> DivSmall(Wrapped(m10), 100),
                  hop_count |-> hops]
    IN IF Overflows(m60) \/ (hops > 2 /\ Overflows(m30)) \/ Overflows(m10)
         THEN {given, [given EXCEPT !.panic = TRUE]}
         ELSE {given}

\* ================================================================ network.rs
\* MESH_PACKET_MAGIC: "MESH"
MESH_PACKET_MAGIC == <<77, 69, 83, 72>>

\* PacketType in declaration order: bincode writes the index of the variant
PacketTypes == <<"BitcoinP2P", "CommonsGovernance", "StratumV2", "Paid">>

TypeIndex(ty) == CHOOSE i \in 1..Len(PacketTypes) : PacketTypes[i] = ty

\* bincode, fixed-width little-endian integers; the values written are below
\* 65536, the values read are -1 past the end of the data and -2 when they
\* do not fit two bytes
LittleEndian(v, width) == <<v % 256, v \div 256>> \o [i \in 1..(width - 2) |-> 0]

ReadInt(data, pos, width) ==
    IF pos + width - 1 > Len(data) THEN -1
    ELSE IF \E i \in 2..(width - 1) : data[pos + i] # 0 THEN -2
    ELSE data[pos] + 256 * data[pos + 1]

\* a NodeId or a preimage: [n; 32] stands for n; other bytes stand for themselves
ArrayBytes(n) == [i \in 1..32 |-> n]

ReadArray(data, pos) ==
    LET bytes == SubSeq(data, pos, pos + 31)
    IN IF \A i \in 1..32 : bytes[i] = bytes[1] THEN bytes[1] ELSE bytes

\* a payload with its bytes, described the way the policy engine reads it
WirePayload(bytes) ==
    [len |-> Len(bytes),
     head |-> IF Len(bytes) >= 4 /\ SubSeq(bytes, 1, 4) \in BitcoinMagics
                THEN "bitcoin_magic"
              ELSE IF IsStratumV2Message(bytes) THEN "stratum_tag"
              ELSE IF Len(bytes) >= 4 /\ SubSeq(bytes, 1, 4) = MeshMagic THEN "mesh_magic"
              ELSE "other",
     command |-> IF Len(bytes) >= 12 /\ TrimEndNul(SubSeq(bytes, 5, 12)) \in BitcoinCommands
                   THEN "bitcoin"
                 ELSE IF Len(bytes) >= 12
                         /\ TrimEndNul(SubSeq(bytes, 5, 12)) \in GovernanceCommands
                   THEN "governance"
                 ELSE "other",
     bytes |-> bytes]

\* PaymentProof::Lightning with an empty invoice and amount and timestamp 0:
\* variant index, invoice length, preimage, amount, timestamp, expires_at
BincodeProof(pf) ==
    LittleEndian(0, 4) \o LittleEndian(0, 8) \o ArrayBytes(pf.preimage)
        \o LittleEndian(0, 8) \o LittleEndian(0, 8) \o LittleEndian(pf.expires_at, 8)

RECURSIVE BincodeRoute(_)
BincodeRoute(route) ==
    IF route = << >> THEN << >> ELSE ArrayBytes(Head(route)) \o BincodeRoute(Tail(route))

\* bincode::serialize(&MeshPacket): the fields in declaration order
Bincode(p) ==
    <<p.version>> \o LittleEndian(TypeIndex(p.packet_type) - 1, 4)
        \o ArrayBytes(p.source) \o ArrayBytes(p.destination)
        \o LittleEndian(Len(p.route), 8) \o BincodeRoute(p.route)
        \o LittleEndian(p.sequence, 8) \o LittleEndian(p.timestamp, 8)
        \o (IF p.payment_proof = None THEN <<0>>
            ELSE <<1>> \o BincodeProof(p.payment_proof[1]))
        \o LittleEndian(p.payload.len, 8) \o p.payload.bytes
        \o (IF p.metadata = None THEN <<0>> ELSE <<1>>)

Failed == [ok |-> FALSE]

\* the Option<PaymentProof> at pos: its value and the position after it, or
\* the position 0 when the bytes are no such value
ReadProof(data, pos) ==
    IF pos > Len(data) THEN [next |-> 0]
    ELSE IF data[pos] = 0 THEN [next |-> pos + 1, value |-> None]
    ELSE IF data[pos] # 1 THEN [next |-> 0]
    ELSE IF ReadInt(data, pos + 1, 4) # 0 \/ ReadInt(data, pos + 5, 8) # 0
            \/ pos + 68 > Len(data)
            \/ ReadInt(data, pos + 45, 8) # 0 \/ ReadInt(data, pos + 53, 8) # 0
            \/ ReadInt(data, pos + 61, 8) < 0
      THEN [next |-> 0]
    ELSE [next |-> pos + 69,
          value |-> Some([preimage |-> ReadArray(data, pos + 13),
                          expires_at |-> ReadInt(data, pos + 61, 8)])]

\* bincode::deserialize::<MeshPacket>(data): reads the fields from the first
\* byte of data on and ignores what follows the last field. A packet with
\* metadata is outside the packets modelled
BincodeDeserialize(data) ==
    LET ty == ReadInt(data, 2, 4)
        hops == ReadInt(data, 70, 8)
        q == 78 + 32 * hops
        pf == ReadProof(data, q + 16)
        plen == ReadInt(data, pf.next, 8)
        m == pf.next + 8 + plen
    IN IF Len(data) < 1 \/ ty < 0 \/ ty >= Len(PacketTypes) THEN Failed
       ELSE IF hops < 0 \/ q + 15 > Len(data) THEN Failed
       ELSE IF ReadInt(data, q, 8) < 0 \/ ReadInt(data, q + 8, 8) < 0 THEN Failed
       ELSE IF pf.next = 0 THEN Failed
       ELSE IF plen < 0 \/ m > Len(data) \/ data[m] # 0 THEN Failed
       ELSE [ok |-> TRUE,
             packet |->
               [version |-> data[1], packet_type |-> PacketTypes[ty + 1],
                source |-> ReadArray(data, 6), destination |-> ReadArray(data, 38),
                route |-> [i \in 1..hops |-> ReadArray(data, 78 + 32 * (i - 1))],
                sequence |-> ReadInt(data, q, 8), timestamp |-> ReadInt(data, q + 8, 8),
                payment_proof |-> pf.value,
                payload |-> WirePayload(SubSeq(data, pf.next + 8, m - 1)),
                metadata |-> None]]

\* serialize_mesh_packet: validate, encode, prepend the magic
SerializeMeshPacket(p) ==
    IF ~Validate(p) THEN Failed
    ELSE [ok |-> TRUE, data |-> MESH_PACKET_MAGIC \o Bincode(p)]

\* is_mesh_packet
IsMeshPacket(data) == Len(data) >= 4 /\ SubSeq(data, 1, 4) = MESH_PACKET_MAGIC

\* deserialize_mesh_packet: checks the magic, then decodes data from its
\* first byte
DeserializeMeshPacket(data) ==
    IF ~IsMeshPacket(data) THEN Failed ELSE BincodeDeserialize(data)

\* packets with their bytes and timestamp, valid or with a route that ends
\* short of the destination
WirePackets ==
    {[version |-> MESH_PACKET_VERSION, packet_type |-> ty, source |-> src,
      destination |-> d, route |-> IF one THEN <<src>> ELSE <<src, d>>,
      sequence |-> q, timestamp |-> ts,
      payment_proof |-> pf, payload |-> WirePayload(b), metadata |-> None] :
        ty \in {"BitcoinP2P", "Paid"}, src \in Nodes, d \in Nodes,
        one \in BOOLEAN, q \in Seqs, ts \in {0, MaxTime},
        pf \in {None, Some([preimage |-> 1, expires_at |-> ExpiresAt(1)])},
        b \in {<<1, 2, 3, 4>>, MeshMagic \o <<0>>}}

\* ================================================================ manager.rs
\* MeshManager::determine_routing_policy
DetermineRoutingPolicy(en, md, message) ==
    IF ~en THEN "Free" ELSE DeterminePolicy(DetectProtocol(message), md)

\* String::from_utf8(address).ok()
FromUtf8(a) == IF a = 0 THEN None ELSE Some(a)

\* MeshManager::derive_node_id_from_address: SHA-256 of the address
DeriveNodeId(a) == (a % NumNodes) + 1

\* MeshManager::find_peer_address
FindPeerAddress(rts, n) ==
    IF n \in DOMAIN rts /\ rts[n].direct_address # None
      THEN FromUtf8(rts[n].direct_address[1])
      ELSE None

\* ReplayPrevention::check_replay run to its end under the manager's Mutex:
\* the value returned and the two maps it leaves
CheckReplay(data, used, proof, peer, sequence, t) ==
    LET swept == MapRemove(data, ExpiredSet(data, t))
    IN IF HashSeen(swept, proof)
         THEN [ret |-> "err_replay", data |-> swept, used |-> used]
       ELSE IF SeqOutOfOrder(used, peer, sequence)
         THEN [ret |-> "err_sequence", data |-> swept, used |-> used]
       ELSE IF IsExpired(proof, t)
         THEN [ret |-> "err_expired", data |-> swept, used |-> used]
       ELSE [ret |-> "ok",
             data |-> MapInsert(swept, ProofHash(proof),
                        [timestamp |-> t, peer_id |-> peer, sequence |-> sequence]),
             used |-> MapInsert(used, peer, sequence)]

\* what PaymentVerifier::verify can answer: an error, a result with verified
\* false, a result with verified true
VerifyOutcomes == {"err", "unverified", "verified"}

\* a route_packet that classifies the payload and forwards without asking
\* for payment
RouteGateNoPayment(en, md, data, used, p, v, t) ==
    [result |-> IF en THEN "pass" ELSE "MeshDisabled",
     policy |-> DetermineRoutingPolicy(en, md, p.payload),
     replay |-> "none", verified |-> "none", data |-> data, used |-> used]

\* a route_packet that consults the replay guard before it looks at the
\* master switch
RouteGateSwitchLast(en, md, data, used, p, v, t) ==
    LET cr == IF p.payment_proof = None
                THEN [ret |-> "none", data |-> data, used |-> used]
                ELSE CheckReplay(data, used, p.payment_proof[1], p.source,
                                 p.sequence, t)
    IN [result |-> IF ~en THEN "MeshDisabled"
                   ELSE IF cr.ret \in {"none", "ok"} THEN "pass"
                   ELSE "ReplayDetected",
        policy |-> "none", replay |-> cr.ret, verified |-> "none",
        data |-> cr.data, used |-> cr.used]

\* MeshManager::route_packet up to the call of forward_packet: the error it
\* returns, or "pass", with the policy, the answer of check_replay and the
\* answer v of verify when they were asked for, and the replay maps it leaves
RouteGate(en, md, data, used, p, v, t) ==
    LET none == [result |-> "pass", policy |-> "none", replay |-> "none",
                 verified |-> "none", data |-> data, used |-> used]
    IN IF ~en THEN [none EXCEPT !.result = "MeshDisabled"]
       ELSE IF p.payload.len = 0 THEN [none EXCEPT !.result = "InvalidPacket"]
       ELSE IF p.destination = ZeroNode THEN [none EXCEPT !.result = "InvalidPacket"]
       ELSE IF ~Validate(p) THEN [none EXCEPT !.result = "InvalidPacket"]
       ELSE LET policy == DetermineRoutingPolicy(en, md, p.payload)
                g == [none EXCEPT !.policy = policy]
            IN IF policy # "PaymentRequired" THEN g
               ELSE IF p.payment_proof = None
                 THEN [g EXCEPT !.result = "PaymentVerification"]
               ELSE LET cr == CheckReplay(data, used, p.payment_proof[1],
                                          p.source, p.sequence, t)
                        r == [g EXCEPT !.replay = cr.ret, !.data = cr.data,
                                       !.used = cr.used]
                    IN IF cr.ret # "ok" THEN [r EXCEPT !.result = "ReplayDetected"]
                       ELSE IF v # "verified"
                         THEN [r EXCEPT !.result = "PaymentVerification",
                                        !.verified = v]
                       ELSE [r EXCEPT !.verified = v]

\* whether route_packet reaches verify
AsksReplay(en, md, p) ==
    /\ en /\ p.payload.len # 0 /\ p.destination # ZeroNode /\ Validate(p)
    /\ DetermineRoutingPolicy(en, md, p.payload) = "PaymentRequired"
    /\ p.payment_proof # None

AsksVerify(en, md, data, used, p, t) ==
    /\ AsksReplay(en, md, p)
    /\ CheckReplay(data, used, p.payment_proof[1], p.source, p.sequence, t).ret = "ok"

\* what NodeAPI::send_mesh_packet_to_peer can answer
SendOutcomes == {"ok", "err"}

\* a discover_route that allocates the id and stores nothing
PendingNotStored(pending, counter, d, src, t) == pending

\* the pending request discover_route stores on a miss
PendingAfterMiss(pending, counter, d, src, t) ==
    MapInsert(pending, counter + 1,
              [destination |-> d, source |-> src, request_id |-> counter + 1,
               timestamp |-> t, responders |-> << >>])

\* entry.direct_address.and_then(from_utf8)
EntryAddress(e) == IF e.direct_address # None THEN FromUtf8(e.direct_address[1]) ELSE None

\* a forward_packet that splices its id in whether or not the route has it
SpliceAlways(route, me) ==
    SubSeq(route, 1, Len(route) - 1) \o <<me>> \o <<route[Len(route)]>>

\* forward_packet, next-hop branch: the route of the packet it serializes is
\* the packet's own when this node is in it, else a clone with add_to_route
ForwardedRoute(route, me) ==
    IF InRoute(route, me) THEN route ELSE AddToRoute(route, me)

\* a next hop read from the head of the route
NextHopFirstNode(route_path) ==
    IF Len(route_path) > 1 THEN Some(route_path[1]) ELSE None

\* forward_packet: route_path[1] when the route has more than one node
NextHop(route_path) ==
    IF Len(route_path) > 1 THEN Some(route_path[2]) ELSE None

\* a forward_packet that sends before it resolves the route
ForwardPacketSendFirst(en, me, cache, rts, pending, counter, p, snd, t) ==
    [result |-> IF ~en THEN "MeshDisabled"
                ELSE IF FindRoute(cache, rts, p.destination, t) = None
                  THEN "RouteNotFound"
                ELSE "Ok",
     sends |-> 1, sent |-> Some(p.route), addr |-> None, resolved |-> TRUE,
     cache |-> cache,
     pending |-> pending, counter |-> counter]

\* MeshManager::forward_packet: the value returned, the number of calls of
\* send_mesh_packet_to_peer, the route of the packet handed to it, whether a
\* route and the address of its next peer were found, and the cache and
\* discovery state it leaves; snd is the answer of the send when there is one
ForwardPacket(en, me, cache, rts, pending, counter, p, snd, t) ==
    LET d == p.destination
        same == [result |-> "Ok", sends |-> 0, sent |-> None, addr |-> None,
                 resolved |-> FALSE,
                 cache |-> cache, pending |-> pending, counter |-> counter]
    IN IF ~en THEN [same EXCEPT !.result = "MeshDisabled"]
       ELSE IF p.payload.len = 0 THEN [same EXCEPT !.result = "InvalidPacket"]
       ELSE IF d = ZeroNode THEN [same EXCEPT !.result = "InvalidPacket"]
       ELSE LET found == FindRoute(cache, rts, d, t)
                cache1 == FindRouteCache(cache, rts, d, t)
                route == IF found # None THEN found
                         ELSE DiscoverRoute(cache1, rts, d, me, t)
                looked == [same EXCEPT !.cache = cache1]
            IN IF route = None
                 THEN [looked EXCEPT !.result = "RouteNotFound",
                                     !.pending = PendingAfterMiss(pending, counter, d, me, t),
                                     !.counter = counter + 1]
               ELSE LET route_path == route[1]
                        route_entry == GetRoute(rts, d)
                        next_hop == NextHop(route_path)
                        out == IF next_hop # None
                                 THEN [p EXCEPT !.route = ForwardedRoute(@, me)]
                                 ELSE p
                        peer_address ==
                            IF next_hop # None
                              THEN IF route_entry # None /\ next_hop[1] = d
                                     THEN EntryAddress(route_entry[1])
                                     ELSE FindPeerAddress(rts, next_hop[1])
                              ELSE IF route_entry # None
                                     THEN EntryAddress(route_entry[1])
                                     ELSE FindPeerAddress(rts, d)
                    IN IF ~SerializeOk(out)
                         THEN [looked EXCEPT !.result = "InvalidPacket",
                                             !.resolved = peer_address # None]
                       ELSE IF peer_address = None
                         THEN [looked EXCEPT !.result = "RouteNotFound"]
                       ELSE [looked EXCEPT !.sends = 1, !.sent = Some(out.route),
                                !.addr = peer_address,
                                !.resolved = TRUE,
                                !.result = IF snd = "ok" THEN "Ok" ELSE "NetworkError"]

InitManager ==
    /\ enabled \in BOOLEAN
    /\ mode \in Modes
    /\ mcall = [op |-> "none", result |-> "none", sends |-> 0, policy |-> "none",
                has_proof |-> FALSE, replay |-> "none", verified |-> "none",
                sent |-> None, resolved |-> FALSE, branch |-> "none",
                fwd |-> None]
    /\ mops = 0
    /\ pevents = 0

\* the end of a call that got to forward_packet. A lookup in routes of a key
\* whose shard is locked for ever may never return; a miss needs a fresh
\* request id
Forward(op, p, g) ==
    \E snd \in (IF ForwardPacket(enabled, MyNodeId, route_cache, routes, pending_requests,
                                 request_id_counter, p, "ok", now).sends = 1
                  THEN SendOutcomes ELSE {"none"}),
       blocked \in (IF enabled /\ p.payload.len # 0 THEN ReadBlocks(p.destination)
                    ELSE {FALSE}) :
        LET f == ForwardPacket(enabled, MyNodeId, route_cache, routes, pending_requests,
                               request_id_counter, p, snd, now)
            c == [op |-> op, result |-> f.result, sends |-> f.sends,
                  policy |-> g.policy, has_proof |-> p.payment_proof # None,
                  replay |-> g.replay, verified |-> g.verified,
                  resolved |-> f.resolved, branch |-> "forward",
                  fwd |-> Some([destination |-> p.destination,
                                payload_len |-> p.payload.len]),
                  sent |-> IF f.sent = None THEN None
                           ELSE Some([source |-> p.source,
                                      destination |-> p.destination,
                                      route_in |-> p.route, route |-> f.sent[1],
                                      addr |-> f.addr])]
        IN IF blocked
             THEN /\ mcall' = [c EXCEPT !.result = "blocked", !.sends = 0,
                                         !.sent = None, !.resolved = FALSE]
                  /\ UNCHANGED <<route_cache, discoveryState>>
             ELSE /\ f.counter <= MaxRequests
                  /\ mcall' = c
                  /\ route_cache' = f.cache
                  /\ pending_requests' = f.pending
                  /\ request_id_counter' = f.counter

\* MeshManager::route_packet
RoutePacketOp(p) ==
    /\ mops < MaxMgrOps
    /\ mops' = mops + 1
    /\ \E v \in (IF AsksVerify(enabled, mode, replay_data, used_sequences, p, now)
                   THEN VerifyOutcomes ELSE {"none"}) :
          LET g == RouteGate(enabled, mode, replay_data, used_sequences, p, v, now)
          IN /\ replay_data' = g.data
             /\ used_sequences' = g.used
             /\ IF g.result # "pass"
                  THEN /\ mcall' = [op |-> "route_packet", result |-> g.result,
                                    sends |-> 0, policy |-> g.policy,
                                    has_proof |-> p.payment_proof # None,
                                    replay |-> g.replay, verified |-> g.verified,
                                    sent |-> None, resolved |-> FALSE,
                                    branch |-> "none", fwd |-> None]
                       /\ UNCHANGED <<route_cache, discoveryState>>
                  ELSE Forward("route_packet", p, g)
    /\ UNCHANGED <<fnVars, now, enabled, mode, pevents, replayProc, replayHist, calls, routes,
                   direct_peers, rt_hung, last, prev, adr, rops>>

\* MeshManager::handle_incoming_packet
HandleIncomingPacketOp(p) ==
    /\ mops < MaxMgrOps
    /\ mops' = mops + 1
    /\ LET g == [policy |-> "none", replay |-> "none", verified |-> "none"]
           c == [op |-> "handle_incoming_packet", result |-> "Ok", sends |-> 0,
                 policy |-> "none", has_proof |-> p.payment_proof # None,
                 replay |-> "none", verified |-> "none", sent |-> None,
                 resolved |-> FALSE, branch |-> "none", fwd |-> None]
       IN IF ~enabled
            THEN /\ mcall' = [c EXCEPT !.result = "MeshDisabled"]
                 /\ UNCHANGED <<route_cache, discoveryState>>
          ELSE IF ~Validate(p)
            THEN /\ mcall' = [c EXCEPT !.result = "InvalidPacket"]
                 /\ UNCHANGED <<route_cache, discoveryState>>
          ELSE IF IsForMe(p, MyNodeId)
            THEN /\ mcall' = [c EXCEPT !.branch = "deliver"]
                 /\ UNCHANGED <<route_cache, discoveryState>>
          ELSE IF ~ShouldForward(p, MyNodeId)
            THEN /\ mcall' = [c EXCEPT !.branch = "drop"]
                 /\ UNCHANGED <<route_cache, discoveryState>>
          ELSE Forward("handle_incoming_packet", p, g)
    /\ UNCHANGED <<fnVars, now, enabled, mode, pevents, replayVars, calls, routes, direct_peers,
                   rt_hung, last, prev, adr, rops>>

\* addresses of connected peers: strings, so UTF-8
PeerAddrs == 1..MaxAddr

\* MeshManager::handle_event returning: the call joins the last two
Handled(type, a, status) == evs' = <<evs[2], [type |-> type, addr |-> a, status |-> status]>>

\* MeshManager::handle_event, PeerConnected: add_direct_peer, whose insert into
\* routes waits for ever on a shard whose lock a stuck caller holds
PeerConnectedOp(a, budget) ==
    /\ pevents < budget
    /\ pevents' = pevents + 1
    /\ IF enabled
         THEN /\ direct_peers' = MapInsert(direct_peers, DeriveNodeId(a), a)
              /\ routes' = IF DeriveNodeId(a) \in rt_hung THEN routes
                           ELSE MapInsert(routes, DeriveNodeId(a),
                                          DirectEntry(DeriveNodeId(a), a, now))
              /\ Handled("PeerConnected", a,
                         IF DeriveNodeId(a) \in rt_hung THEN "blocked" ELSE "ok")
         ELSE /\ UNCHANGED <<direct_peers, routes>>
              /\ Handled("PeerConnected", a, "ok")
    /\ UNCHANGED <<fcall, dr, lk, now, enabled, mode, mcall, mops, replayVars, calls, route_cache, rt_hung,
                   discoveryState, last, prev, adr, rops>>

\* MeshManager::handle_event, PeerDisconnected: remove_direct_peer
PeerDisconnectedOp(a, budget) ==
    /\ pevents < budget
    /\ pevents' = pevents + 1
    /\ IF enabled
         THEN /\ direct_peers' = MapRemove(direct_peers, {DeriveNodeId(a)})
              /\ rt_hung' = IF RemoveBlocks(routes, DeriveNodeId(a))
                              THEN rt_hung \cup {DeriveNodeId(a)} ELSE rt_hung
              /\ Handled("PeerDisconnected", a,
                         IF RemoveBlocks(routes, DeriveNodeId(a)) THEN "blocked" ELSE "ok")
         ELSE /\ UNCHANGED <<direct_peers, rt_hung>>
              /\ Handled("PeerDisconnected", a, "ok")
    /\ UNCHANGED <<fcall, dr, lk, now, enabled, mode, mcall, mops, replayVars, calls, routes, route_cache,
                   discoveryState, last, prev, adr, rops>>

\* MeshManager::handle_event on MessageReceived, PaymentVerified, any other
\* event type or a message that is no event: consumed, nothing done
OtherEventOp(budget) ==
    /\ pevents < budget
    /\ pevents' = pevents + 1
    /\ Handled("Other", 0, "ok")
    /\ UNCHANGED <<fcall, dr, lk, now, enabled, mode, mcall, mops, replayVars, calls, routingVars>>

\* MeshManager::start: one round of the loop of the spawned cleanup task, which
\* exists only when the manager is enabled. The three sweeps run in order: the
\* routing table's, the replay store's under the manager's mutex, the pending
\* requests'; a routing sweep that never returns ends the task there
SweeperOp ==
    /\ enabled
    /\ \A c \in Callers : pc[c] = "idle"
    /\ \E o \in CleanupOutcomes(routes, route_cache, rt_hung, now) :
          /\ routes' = o.routes
          /\ route_cache' = o.cache
          /\ last' = [op |-> "sweeper", node |-> 0, res |-> None, status |-> o.status]
          /\ IF o.status = "ok"
               THEN /\ replay_data' = MapRemove(replay_data, ExpiredSet(replay_data, now))
                    /\ pending_requests' = DiscoveryCleanupExpired(pending_requests, now)
               ELSE UNCHANGED <<replay_data, pending_requests>>
    /\ prev' = [op |-> last.op, node |-> last.node, status |-> last.status]
    /\ adr' = [node |-> 0, phase |-> "none"]
    /\ UNCHANGED <<fnVars, mgrVars, now, calls, used_sequences, replayProc, replayHist,
                   direct_peers, rt_hung, request_id_counter, rops>>

\* ================================================================ verifier.rs
\* SHA-256 of a preimage: injective on the preimages of the model
Sha256(x) == [sha256 |-> x]

\* a BOLT11 string: one that does not parse, or one carrying a payment hash
\* and, optionally, an amount in millisatoshis
Invoices ==
    {[parses |-> FALSE, payment_hash |-> Sha256(0), amount |-> None]}
    \cup {[parses |-> TRUE, payment_hash |-> Sha256(x), amount |-> a] :
             x \in 1..2, a \in {None, Some(999), Some(2500)}}

\* Invoice::from_str
ParseInvoice(invoice) ==
    IF invoice.parses
      THEN Some([payment_hash |-> invoice.payment_hash, amount |-> invoice.amount])
      ELSE None

\* PaymentProof::Lightning
LightningProofs ==
    [invoice : Invoices, preimage : 1..2, amount_msats : {999, 2500},
     timestamp : {0}, expires_at : 0..MaxTime]

\* what NodeAPI::get_payment_state answers
OracleOutcomes == {"state", "none", "error"}

\* PaymentVerifier::new: lightning_enabled
LightningEnabled == TRUE

\* VerificationResult::success
Success(amount, timestamp, expires_at) ==
    [verified |-> TRUE, amount |-> amount, timestamp |-> timestamp,
     expires_at |-> expires_at, error |-> None]

\* VerificationResult::failure
Failure(error) ==
    [verified |-> FALSE, amount |-> 0, timestamp |-> 0, expires_at |-> None,
     error |-> Some(error)]

\* what a verify call returns and did: Ok(value) or Err, whether the invoice
\* was parsed and whether the host was queried
Verified(ok, value, parsed, queried) ==
    [ok |-> ok, value |-> value, parsed |-> parsed, queried |-> queried]

\* a verify_lightning that fails when the host cannot answer
VerifyLightningOracleFatal(proof, t, oracle) ==
    LET parsed == ParseInvoice(proof.invoice)
    IN IF ~LightningEnabled
         THEN Verified(TRUE, Failure("Lightning verification not enabled"), FALSE, FALSE)
       ELSE IF parsed = None
         THEN Verified(TRUE, Failure("Invalid Lightning invoice format"), TRUE, FALSE)
       ELSE IF parsed[1].payment_hash # Sha256(proof.preimage)
         THEN Verified(TRUE, Failure("Payment hash does not match preimage"), TRUE, FALSE)
       ELSE IF parsed[1].amount # None /\ parsed[1].amount[1] # proof.amount_msats
         THEN Verified(TRUE, Failure("Payment amount does not match invoice"), TRUE, FALSE)
       ELSE IF proof.expires_at < t
         THEN Verified(TRUE, Failure("Lightning invoice has expired"), TRUE, FALSE)
       ELSE IF oracle = "error"
         THEN Verified(FALSE, Failure("payment state query failed"), TRUE, TRUE)
       ELSE Verified(TRUE, Success(proof.amount_msats \div 1000, proof.timestamp,
                                   Some(proof.expires_at)), TRUE, TRUE)

\* PaymentVerifier::verify_lightning at time t, the host answering oracle
VerifyLightning(proof, t, oracle) ==
    LET parsed == ParseInvoice(proof.invoice)
    IN IF ~LightningEnabled
         THEN Verified(TRUE, Failure("Lightning verification not enabled"), FALSE, FALSE)
       ELSE IF parsed = None
         THEN Verified(TRUE, Failure("Invalid Lightning invoice format"), TRUE, FALSE)
       ELSE IF parsed[1].payment_hash # Sha256(proof.preimage)
         THEN Verified(TRUE, Failure("Payment hash does not match preimage"), TRUE, FALSE)
       ELSE IF parsed[1].amount # None /\ parsed[1].amount[1] # proof.amount_msats
         THEN Verified(TRUE, Failure("Payment amount does not match invoice"), TRUE, FALSE)
       ELSE IF proof.expires_at < t
         THEN Verified(TRUE, Failure("Lightning invoice has expired"), TRUE, FALSE)
       ELSE Verified(TRUE, Success(proof.amount_msats \div 1000, proof.timestamp,
                                   Some(proof.expires_at)), TRUE, TRUE)

\* a verify without the check of is_expired
VerifyUnchecked(proof, t1, t2, oracle) == VerifyLightning(proof, t2, oracle)

\* PaymentVerifier::verify: is_expired reads the clock at t1, verify_lightning
\* at t2
Verify(proof, t1, t2, oracle) ==
    IF IsExpired(proof, t1)
      THEN Verified(TRUE, Failure("Payment proof expired"), FALSE, FALSE)
      ELSE VerifyLightning(proof, t2, oracle)

\* ================================================================ functions
\* calls of the functions that read no state, on arguments of every shape
NoCall == [fn |-> "none", in |-> [none |-> TRUE], out |-> [none |-> TRUE]]

\* no handle_event call yet
NoEvent == [type |-> "none", addr |-> 0, status |-> "none"]

InitFunctions ==
    /\ fcall = NoCall
    /\ evs = <<NoEvent, NoEvent>>
    /\ dr = [c \in Callers |-> NoDiscover]
    /\ lk = [holder |-> 0, at |-> [t \in Tasks |-> "idle"], req |-> [t \in Tasks |-> None]]

\* one call in a run: what a function returns depends on no earlier call
Call(name, given, result) ==
    /\ fcall.fn = "none"
    /\ fcall' = [fn |-> name, in |-> given, out |-> result]
    /\ UNCHANGED <<evs, dr, lk, now, replayVars, calls, routingVars, mgrVars>>

\* RoutingPolicyEngine::determine_policy on a protocol, in an engine of mode md
DeterminePolicyOp(pr, md) ==
    Call("determine_policy", [protocol |-> pr, mode |-> md],
         [policy |-> DeterminePolicy(pr, md)])

\* the first four bytes of a message: two Bitcoin magics, the mesh magic, a
\* Stratum V2 tag, zeros
MessageHeads ==
    {<<249, 190, 180, 217>>, <<11, 17, 9, 7>>, MeshMagic, <<0, 1, 0, 0>>, <<0, 0, 0, 0>>}

\* bytes 4..12: "ping", "econveto", "getheade" (of getheaders), zeros
MessageCommands ==
    {<<112, 105, 110, 103, 0, 0, 0, 0>>,
     <<101, 99, 111, 110, 118, 101, 116, 111>>,
     <<103, 101, 116, 104, 101, 97, 100, 101>>,
     <<0, 0, 0, 0, 0, 0, 0, 0>>}

\* what follows byte 12: nothing, "rs" and two NULs, one byte
MessageTails == {<< >>, <<114, 115, 0, 0>>, <<1>>}

\* lengths of the messages cut short of 12 bytes
ShortLens == {0, 1, 2, 3, 4, 11}

Messages ==
    {h \o c \o t : h \in MessageHeads, c \in MessageCommands, t \in MessageTails}
    \cup {SubSeq(h \o c, 1, k) : h \in MessageHeads, c \in MessageCommands,
                                 k \in ShortLens}

\* determine_policy(detect_protocol(m)) on two messages, in one engine
ClassifyOp(a, b, md) ==
    Call("classify", [m1 |-> a, m2 |-> b, mode |-> md],
         [first |-> DeterminePolicy(DetectProtocolBytes(a), md),
          second |-> DeterminePolicy(DetectProtocolBytes(b), md)])

\* MeshPacket::new
NewPacket(ty, src, d, bytes, t) ==
    [version |-> MESH_PACKET_VERSION, packet_type |-> ty, source |-> src,
     destination |-> d, route |-> <<src>>, sequence |-> 0, timestamp |-> t,
     payment_proof |-> None, payload |-> WirePayload(bytes), metadata |-> None]

\* MeshPacket::new, then validate and serialize_mesh_packet on the packet
NewPacketOp(ty, src, d, bytes) ==
    Call("new", [packet_type |-> ty, source |-> src, destination |-> d,
                 payload |-> bytes],
         LET p == NewPacket(ty, src, d, bytes, now)
         IN [packet |-> p, valid |-> Validate(p),
             serialized |-> SerializeMeshPacket(p).ok])

\* base fees: every amount up to MaxFee, 1000, 2^16, the largest fee whose
\* share of 60 in 100 fits a u64 and the one after it, 2^63, 2^64 - 1
BaseFees ==
    {U64(v) : v \in 0..MaxFee} \cup
    {U64(1000), U64(Limb), <<17476, 17476, 17476, 1092>>, <<17477, 17476, 17476, 1092>>,
     <<0, 0, 0, 32768>>, <<65535, 65535, 65535, 65535>>}

\* RoutingTable::calculate_routing_fee
CalculateRoutingFeeOp(fee, hops) ==
    \E r \in CalculateRoutingFee(fee, hops) :
        Call("calculate_routing_fee", [fee |-> fee, hops |-> hops], r)

\* serialize_mesh_packet, then deserialize_mesh_packet on what it returned
CodecOp(p) ==
    Call("codec", [packet |-> p],
         LET s == SerializeMeshPacket(p)
         IN [serialized |-> s,
             decoded |-> IF s.ok THEN DeserializeMeshPacket(s.data) ELSE Failed])

\* PaymentVerifier::verify on one proof, once for each answer of the host
VerifyOp(proof, t1, t2) ==
    Call("verify", [proof |-> proof, t1 |-> t1, t2 |-> t2],
         [state |-> Verify(proof, t1, t2, "state"),
          none |-> Verify(proof, t1, t2, "none"),
          error |-> Verify(proof, t1, t2, "error")])

\* route_packet, task c, of a packet that needs payment and carries a proof:
\* the checks up to replay_prevention.lock().await
RpBegin(c, p) ==
    /\ lk.at[c] = "idle"
    /\ mops < MaxMgrOps
    /\ mops' = mops + 1
    /\ AsksReplay(enabled, mode, p)
    /\ lk' = [lk EXCEPT !.at[c] = "lock", !.req[c] = Some(p)]
    /\ UNCHANGED <<fcall, evs, dr, now, replayVars, calls, routingVars, enabled, mode,
                   mcall, pevents>>

\* route_packet, task c: the Mutex is granted
RpLock(c) ==
    /\ lk.at[c] = "lock"
    /\ lk.holder = 0
    /\ lk' = [lk EXCEPT !.holder = c, !.at[c] = "check"]
    /\ UNCHANGED <<fcall, evs, dr, now, replayVars, calls, routingVars, mgrVars>>

\* route_packet, task c: check_replay under the guard. An error returns and
\* drops the guard; otherwise the task goes on to verify(proof).await, and
\* the guard, bound in the enclosing block, stays alive
RpCheckReplay(c) ==
    /\ lk.at[c] = "check"
    /\ LET p == lk.req[c][1]
           cr == CheckReplay(replay_data, used_sequences, p.payment_proof[1], p.source,
                             p.sequence, now)
       IN /\ replay_data' = cr.data
          /\ used_sequences' = cr.used
          /\ IF cr.ret = "ok"
               THEN /\ lk' = [lk EXCEPT !.at[c] = "verify"]
                    /\ mcall' = mcall
               ELSE /\ lk' = [lk EXCEPT !.holder = 0, !.at[c] = "idle", !.req[c] = None]
                    /\ mcall' = [op |-> "route_packet", result |-> "ReplayDetected",
                                 sends |-> 0, policy |-> "PaymentRequired",
                                 has_proof |-> TRUE, replay |-> cr.ret,
                                 verified |-> "none", sent |-> None, resolved |-> FALSE,
                                 branch |-> "none", fwd |-> None]
    /\ UNCHANGED <<fcall, evs, dr, now, replayProc, replayHist, calls, routingVars,
                   enabled, mode, mops, pevents>>

\* route_packet, task c: the host answers get_payment_state and verify
\* returns; the block ends, the guard is dropped, and a verified packet goes
\* to forward_packet
RpVerified(c) ==
    /\ lk.at[c] = "verify"
    /\ lk' = [lk EXCEPT !.holder = 0, !.at[c] = "idle", !.req[c] = None]
    /\ \E v \in VerifyOutcomes :
          LET p == lk.req[c][1]
              g == [policy |-> "PaymentRequired", replay |-> "ok", verified |-> v]
          IN IF v # "verified"
               THEN /\ mcall' = [op |-> "route_packet", result |-> "PaymentVerification",
                                 sends |-> 0, policy |-> g.policy, has_proof |-> TRUE,
                                 replay |-> g.replay, verified |-> v, sent |-> None,
                                 resolved |-> FALSE, branch |-> "none", fwd |-> None]
                    /\ UNCHANGED <<route_cache, discoveryState>>
               ELSE Forward("route_packet", p, g)
    /\ UNCHANGED <<fcall, evs, dr, now, replayVars, calls, routes, direct_peers, rt_hung,
                   last, prev, adr, rops, enabled, mode, mops, pevents>>

\* the cleanup task of MeshManager::start: the interval fires, the routing
\* table is swept, and the task reaches replay_prevention.lock().await; a
\* routing sweep that never returns ends the task there
SweepWake ==
    /\ enabled
    /\ lk.at[Sweeper] = "idle"
    /\ \E o \in CleanupOutcomes(routes, route_cache, rt_hung, now) :
          /\ routes' = o.routes
          /\ route_cache' = o.cache
          /\ lk' = [lk EXCEPT !.at[Sweeper] = IF o.status = "ok" THEN "lock" ELSE "hung"]
    /\ UNCHANGED <<fcall, evs, dr, now, replayVars, calls, direct_peers, rt_hung,
                   discoveryState, last, prev, adr, rops, mgrVars>>

\* the cleanup task: the Mutex is granted
SweepLock ==
    /\ lk.at[Sweeper] = "lock"
    /\ lk.holder = 0
    /\ lk' = [lk EXCEPT !.holder = Sweeper, !.at[Sweeper] = "sweep"]
    /\ UNCHANGED <<fcall, evs, dr, now, replayVars, calls, routingVars, mgrVars>>

\* the cleanup task: replay.cleanup_expired() under the guard, then
\* route_discovery.cleanup_expired().await, which starts by asking for the
\* write lock of pending_requests; the guard lives to the end of the loop body
SweepReplay ==
    /\ lk.at[Sweeper] = "sweep"
    /\ replay_data' = MapRemove(replay_data, ExpiredSet(replay_data, now))
    /\ lk' = [lk EXCEPT !.at[Sweeper] = "pending"]
    /\ UNCHANGED <<fcall, evs, dr, now, used_sequences, replayProc, replayHist, calls,
                   routingVars, mgrVars>>

\* the cleanup task: the write lock of pending_requests is granted, the
\* expired requests are removed, and the loop body ends, dropping the guard
SweepPending ==
    /\ lk.at[Sweeper] = "pending"
    /\ pending_requests' = DiscoveryCleanupExpired(pending_requests, now)
    /\ lk' = [lk EXCEPT !.holder = 0, !.at[Sweeper] = "idle"]
    /\ UNCHANGED <<fcall, evs, dr, now, replayVars, calls, routingState,
                   request_id_counter, last, prev, adr, rops, mgrVars>>

\* the clock: SystemTime::now() read by every operation
Tick ==
    /\ now < MaxTime
    /\ now' = now + 1
    /\ UNCHANGED <<fnVars, mgrVars, replayVars, calls, routingVars>>

vars == <<now, replayVars, calls, routingVars, mgrVars, fnVars>>

\* calls made one after the other (as under the manager's Mutex)
NextReplaySeq ==
    \/ Tick
    \/ BeginCheckReplay(1, MaxCalls)
    \/ BeginCleanup(1, MaxCalls)
    \/ CleanupCollect(1)
    \/ CleanupRemove(1)
    \/ CheckHash(1)
    \/ CheckSeq(1)
    \/ CheckExpiry(1)
    \/ InsertHash(1)
    \/ InsertSeq(1)

\* calls on &self from several tasks at once, each map operation atomic
NextReplayConc ==
    \/ Tick
    \/ \E c \in Callers : BeginCheckReplay(c, MaxConcCalls)
    \/ \E c \in Callers : BeginCleanup(c, MaxConcCalls)
    \/ \E c \in Callers : CleanupCollect(c)
    \/ \E c \in Callers : CleanupRemove(c)
    \/ \E c \in Callers : CheckHash(c)
    \/ \E c \in Callers : CheckSeq(c)
    \/ \E c \in Callers : CheckExpiry(c)
    \/ \E c \in Callers : InsertHash(c)
    \/ \E c \in Callers : InsertSeq(c)

\* operations on one RoutingTable, one at a time
NextRouting ==
    \/ Tick
    \/ \E n \in Nodes, a \in Addrs : AddDirectPeerOp(n, a)
    \/ \E n \in Nodes : RemoveDirectPeerOp(n)
    \/ \E e \in AddRouteArgs(now) : AddRouteOp(e)
    \/ \E n \in Nodes : GetRouteOp(n)
    \/ \E n \in Nodes : FindRouteOp(n)
    \/ RtCleanupExpiredOp

\* the routing table driven by its owner and by the discovery handlers
NextDiscovery ==
    \/ Tick
    \/ \E n \in Nodes, a \in Addrs : rops < MaxDiscOps /\ AddDirectPeerOp(n, a)
    \/ \E n \in Nodes : rops < MaxDiscOps /\ RemoveDirectPeerOp(n)
    \/ \E e \in AddRouteArgs(now) : rops < MaxDiscOps /\ AddRouteOp(e)
    \/ \E n \in Nodes : rops < MaxDiscOps /\ GetRouteOp(n)
    \/ \E d \in Nodes : rops < MaxDiscOps /\ FindRouteOp(d)
    \/ rops < MaxDiscOps /\ RtCleanupExpiredOp
    \/ \E d \in Nodes, src \in Nodes : rops < MaxDiscOps /\ DiscoverRouteOp(d, src)
    \/ \E m \in [destination : Nodes, request_id : ReqIds, route : RoutePaths,
                  cost : Costs], from \in Nodes :
            rops < MaxDiscOps /\ HandleRouteResponseOp(m, from)
    \/ \E src \in Nodes, ads \in AdLists :
            rops < MaxDiscOps /\ HandleRouteAdvertisementOp(src, ads)

\* the discovery handlers beside the running cleanup task
NextSweeper ==
    \/ Tick
    \/ \E n \in Nodes, a \in Addrs : rops < MaxDiscOps /\ AddDirectPeerOp(n, a)
    \/ \E d \in Nodes, src \in Nodes : rops < MaxDiscOps /\ DiscoverRouteOp(d, src)
    \/ \E m \in [destination : Nodes, request_id : ReqIds, route : RoutePaths,
                  cost : Costs], from \in Nodes :
            rops < MaxDiscOps /\ HandleRouteResponseOp(m, from)
    \/ SweeperOp

\* the manager: peer events and packets, one call at a time
NextManager ==
    \/ Tick
    \/ \E p \in Packets : RoutePacketOp(p)
    \/ \E p \in IncomingPackets : HandleIncomingPacketOp(p)
    \/ \E a \in PeerAddrs : PeerConnectedOp(a, MaxPeerEvents)
    \/ \E a \in PeerAddrs : PeerDisconnectedOp(a, MaxPeerEvents)

\* the receiving side of the manager: packets off the wire and peer events
NextIncoming ==
    \/ Tick
    \/ \E p \in IncomingPackets : HandleIncomingPacketOp(p)
    \/ \E a \in PeerAddrs : PeerConnectedOp(a, MaxPeerEvents)
    \/ \E a \in PeerAddrs : PeerDisconnectedOp(a, MaxPeerEvents)

\* requests issued by this node and the responses that come back
NextResponses ==
    \/ Tick
    \/ \E d \in Nodes, src \in Nodes : rops < MaxDiscOps /\ DiscoverRouteOp(d, src)
    \/ \E m \in [destination : Nodes, request_id : ReqIds, route : RoutePaths,
                  cost : Costs], from \in Nodes :
            rops < MaxDiscOps /\ HandleRouteResponseOp(m, from)

\* requests of neighbours answered from a table of direct peers and routes
NextRequests ==
    \/ Tick
    \/ \E n \in Nodes, a \in Addrs : rops < MaxDiscOps /\ AddDirectPeerOp(n, a)
    \/ \E e \in AddRouteArgs(now) : rops < MaxDiscOps /\ AddRouteOp(e)
    \/ \E req \in RouteRequests, from \in Nodes :
            rops < MaxDiscOps /\ HandleRouteRequestOp(req, from)

\* discover_route calls of several tasks, interleaved at their await points
NextDiscoverConc ==
    \/ Tick
    \/ \E c \in Callers, d \in Nodes, src \in Nodes : DrBegin(c, d, src)
    \/ \E c \in Callers : DrNextId(c)
    \/ \E c \in Callers : DrStamp(c)
    \/ \E c \in Callers : DrInsert(c)

\* paid packets routed by several tasks beside the cleanup task, interleaved
\* at the await points of route_packet and of the loop in start
NextLocks ==
    \/ Tick
    \/ \E c \in Callers, p \in Packets : RpBegin(c, p)
    \/ \E c \in Callers : RpLock(c)
    \/ \E c \in Callers : RpCheckReplay(c)
    \/ \E c \in Callers : RpVerified(c)
    \/ SweepWake
    \/ SweepLock
    \/ SweepReplay
    \/ SweepPending

\* packets forwarded over a table of direct peers and advertised routes
NextForward ==
    \/ Tick
    \/ \E n \in Nodes, a \in Addrs : rops < MaxFwdOps /\ AddDirectPeerOp(n, a)
    \/ \E src \in Nodes, ads \in AdLists :
            rops < MaxFwdOps /\ HandleRouteAdvertisementOp(src, ads)
    \/ \E p \in Packets :
            mops < MaxFwdCalls /\ p.payment_proof = None /\ RoutePacketOp(p)
    \/ \E p \in IncomingPackets : mops < MaxFwdCalls /\ HandleIncomingPacketOp(p)

\* peer events from the host beside the routing table's other writers
NextEvents ==
    \/ Tick
    \/ \E a \in PeerAddrs : PeerConnectedOp(a, MaxEvents)
    \/ \E a \in PeerAddrs : PeerDisconnectedOp(a, MaxEvents)
    \/ OtherEventOp(MaxEvents)
    \/ \E n \in Nodes, a \in Addrs : rops < MaxDiscOps /\ AddDirectPeerOp(n, a)
    \/ \E e \in AddRouteArgs(now) : rops < MaxDiscOps /\ AddRouteOp(e)

\* the functions that read no state
NextFunctions ==
    \/ fcall.fn = "none" /\ \E pr \in Protocols, md \in Modes : DeterminePolicyOp(pr, md)
    \/ fcall.fn = "none"
          /\ \E a \in Messages, b \in Messages, md \in Modes : ClassifyOp(a, b, md)
    \/ fcall.fn = "none" /\ \E p \in WirePackets : CodecOp(p)
    \/ fcall.fn = "none"
          /\ \E fee \in BaseFees, hops \in 0..MaxHops : CalculateRoutingFeeOp(fee, hops)
    \/ fcall.fn = "none"
          /\ \E i \in 1..Len(PacketTypes), src \in Nodes, d \in Nodes,
                bytes \in {<< >>, <<1, 2, 3, 4>>} :
                NewPacketOp(PacketTypes[i], src, d, bytes)
    \/ fcall.fn = "none"
          /\ \E proof \in LightningProofs, t1 \in 0..MaxTime, t2 \in 0..MaxTime :
                t1 <= t2 /\ VerifyOp(proof, t1, t2)

InitAll ==
    now = 0 /\ calls = 0 /\ InitReplay /\ InitRouting /\ InitManager /\ InitFunctions

\* every specification but the manager's runs an enabled payment-gated node
InitFixed == InitAll /\ enabled /\ mode = "PaymentGated"

\* an enabled node in Open mode: every packet is free and reaches forward_packet
InitOpen == InitAll /\ enabled /\ mode = "Open"

SpecReplaySeq == InitFixed /\ [][NextReplaySeq]_vars

SpecReplayConc == InitFixed /\ [][NextReplayConc]_vars

SpecRouting == InitFixed /\ [][NextRouting]_vars

SpecDiscovery == InitFixed /\ [][NextDiscovery]_vars

SpecManager == InitAll /\ [][NextManager]_vars

SpecFunctions == InitFixed /\ [][NextFunctions]_vars

SpecIncoming == InitAll /\ [][NextIncoming]_vars

SpecForward == InitOpen /\ [][NextForward]_vars

SpecResponses == InitFixed /\ [][NextResponses]_vars

SpecRequests == InitFixed /\ [][NextRequests]_vars

SpecDiscoverConc == InitFixed /\ [][NextDiscoverConc]_vars

SpecLocks == InitFixed /\ [][NextLocks]_vars

SpecEvents == InitFixed /\ [][NextEvents]_vars

\* the clock advances and the cleanup task's interval keeps firing
SpecSweeper == InitFixed /\ [][NextSweeper]_vars /\ WF_vars(Tick) /\ WF_vars(SweeperOp)

Spec == SpecReplaySeq

\* ---------------------------------------------------------------- replay claims

\* C1: at-most-once proof use: over any sequence of check_replay and
\* cleanup_expired calls, with any time passing between them, no proof hash is
\* accepted (check_replay returning Ok) more than once.
C1_AtMostOnceProofUse == \A h \in Hashes : ok_count[h] <= 1

\* C2: per-peer sequence monotonicity: a check_replay call from peer P that
\* starts after sequence S from P was accepted is accepted only with a
\* sequence strictly greater than S, under any interleaving of calls.
C2_SequenceMonotonic ==
    \A c \in Callers : ret[c] = "ok" => args[c].sequence > start_max[c]

\* C3: two check_replay calls that run concurrently with the same proof hash
\* do not both return success.
C3_ConcurrentSameProofOneSuccess ==
    \A c, d \in Callers :
        (c # d /\ d \in overlap[c] /\ ret[c] = "ok" /\ ret[d] = "ok")
            => ProofHash(args[c].proof) # ProofHash(args[d].proof)

\* ---------------------------------------------------------------- routing claims

\* C6: routing-table invariant: in every state reached by add_direct_peer,
\* remove_direct_peer, add_route, cleanup_expired, handle_route_response and
\* handle_route_advertisement, every key of direct_peers is a key of routes and
\* its routes entry has direct_address set.
C6_DirectPeersInRoutes ==
    \A n \in DOMAIN direct_peers :
        n \in DOMAIN routes /\ routes[n].direct_address # None

\* C7: direct-peer pinning: a node that is a key of direct_peers and of routes
\* when cleanup_expired runs is still a key of routes after the sweep.
C7_DirectPeerPinned ==
    [][(last'.op = "cleanup_expired" /\ rops' = rops + 1)
          => \A d \in DOMAIN direct_peers \cap DOMAIN routes : d \in DOMAIN routes']_vars

\* C8: a pinned direct peer stays routable past the TTL: find_route(N) issued
\* right after a completed cleanup_expired, for a direct peer N whose entry is
\* the one add_direct_peer wrote more than route_expiry_seconds ago, returns [N].
C8_PinnedPeerRoutable ==
    (/\ last.op = "find_route" /\ last.status = "ok"
     /\ prev.op = "cleanup_expired" /\ prev.status = "ok"
     /\ last.node \in DOMAIN direct_peers
     /\ last.node \in DOMAIN routes
     /\ IsDirectOnly(routes[last.node])
     /\ RouteExpired(routes[last.node], now))
        => last.res = Some(<<last.node>>)

\* C9: read-your-writes on route lookup: find_route(d) issued right after
\* add_route(E) with E.node_id = d and E not expired returns E.route_path,
\* whatever lookups of d came before the add_route.
C9_FindRouteSeesAddRoute ==
    (/\ last.op = "find_route" /\ last.status = "ok"
     /\ prev.op = "add_route" /\ prev.status = "ok"
     /\ prev.node = last.node
     /\ ~RouteExpired(routes[last.node], now))
        => last.res = Some(routes[last.node].route_path)

\* C10: after add_direct_peer(n, a) followed by remove_direct_peer(n), with
\* only reads before and between them, a following find_route(n) returns absent.
C10_AddRemoveFindAbsent ==
    (/\ last.op = "find_route"
     /\ adr = [node |-> last.node, phase |-> "removed"])
        => (last.status = "ok" /\ last.res = None)

\* ---------------------------------------------------------------- manager claims

\* C4: payment gate: a route_packet call that found the payload's policy to be
\* PaymentRequired sends only if the packet carries a proof, check_replay
\* succeeded and verify answered verified; without a proof it returns
\* PaymentVerification, on a check_replay error ReplayDetected, on a proof not
\* verified PaymentVerification, and in these cases nothing is sent.
C4_PaymentGate ==
    (mcall.op = "route_packet" /\ mcall.policy = "PaymentRequired") =>
        /\ mcall.sends > 0 =>
              (mcall.has_proof /\ mcall.replay = "ok" /\ mcall.verified = "verified")
        /\ ~mcall.has_proof =>
              (mcall.result = "PaymentVerification" /\ mcall.sends = 0)
        /\ (mcall.has_proof /\ mcall.replay # "ok") =>
              (mcall.result = "ReplayDetected" /\ mcall.sends = 0)
        /\ (mcall.has_proof /\ mcall.replay = "ok" /\ mcall.verified # "verified") =>
              (mcall.result = "PaymentVerification" /\ mcall.sends = 0)

\* a paid packet that passed the gate and was sent
C4_Witness ==
    /\ mcall.op = "route_packet"
    /\ mcall.policy = "PaymentRequired"
    /\ mcall.has_proof /\ mcall.replay = "ok" /\ mcall.verified = "verified"
    /\ mcall.result = "Ok"
    /\ mcall.sends = 1

\* C5: every route_packet or handle_incoming_packet call makes at most one
\* send_mesh_packet_to_peer call, and none when it returns MeshDisabled,
\* InvalidPacket, PaymentVerification, ReplayDetected or RouteNotFound.
C5_ErrorsTerminal ==
    mcall.op \in {"route_packet", "handle_incoming_packet"} =>
        /\ mcall.sends <= 1
        /\ mcall.result \in {"MeshDisabled", "InvalidPacket", "PaymentVerification",
                             "ReplayDetected", "RouteNotFound"}
              => mcall.sends = 0

\* a paid and verified packet that forward_packet could not route
C5_Witness ==
    /\ mcall.op = "route_packet"
    /\ mcall.verified = "verified"
    /\ mcall.result = "RouteNotFound"
    /\ mcall.sends = 0

\* ---------------------------------------------------------------- entry claims

\* C11: RouteEntry invariant: every entry stored in routes by add_direct_peer,
\* handle_route_response and handle_route_advertisement is either direct-only
\* (direct_address set, next_hop absent) with quality_score 1.0 and
\* route_cost 0, or has a next_hop that is present and equals route_path[1]
\* (the second node of the path).
C11_RouteEntryInvariant ==
    \A n \in DOMAIN routes :
        IF IsDirectOnly(routes[n])
          THEN routes[n].quality_score = 10 /\ routes[n].route_cost = 0
          ELSE /\ routes[n].next_hop # None
               /\ Len(routes[n].route_path) >= 2
               /\ routes[n].next_hop = Some(routes[n].route_path[2])

\* a direct peer's entry next to an advertised entry whose path starts at a
\* node other than its next hop
C11_Witness ==
    /\ \E n \in DOMAIN routes : IsDirectOnly(routes[n])
    /\ \E n \in DOMAIN routes :
            /\ routes[n].quality_score = 7
            /\ routes[n].route_path[1] # routes[n].route_path[2]

\* ---------------------------------------------------------------- forwarding claims

\* C12: route-endpoint invariant on forwarding: the packet forward_packet
\* hands to send_mesh_packet_to_peer differs from the packet it was given
\* only when this node's id was not in the route, and then the id sits
\* immediately before the destination; a packet whose route already names
\* this node is sent unchanged, so its route is not lengthened; every packet
\* sent has a non-empty route that starts at its source and ends at its
\* destination.
C12_RouteEndpointOnForward ==
    mcall.sent # None =>
        LET x == mcall.sent[1]
            n == Len(x.route)
        IN /\ n >= 1
           /\ x.route[1] = x.source
           /\ x.route[n] = x.destination
           /\ InRoute(x.route_in, MyNodeId) => x.route = x.route_in
           /\ x.route # x.route_in =>
                 /\ ~InRoute(x.route_in, MyNodeId)
                 /\ n = Len(x.route_in) + 1
                 /\ x.route[n - 1] = MyNodeId
                 /\ SubSeq(x.route, 1, n - 2) = SubSeq(x.route_in, 1, n - 2)

\* a packet was sent with this node's id spliced in before the destination
C12_Witness ==
    /\ mcall.sent # None
    /\ mcall.sent[1].route # mcall.sent[1].route_in
    /\ mcall.sends = 1

\* C13: master switch: with mesh disabled, every route_packet and
\* handle_incoming_packet call fails with MeshDisabled, makes no
\* send_mesh_packet_to_peer call, and leaves the routing table, the replay
\* guard and the pending discovery requests as they were.
C13_MasterSwitch ==
    [][(mops' = mops + 1 /\ ~enabled) =>
          /\ mcall'.result = "MeshDisabled"
          /\ mcall'.sends = 0
          /\ mcall'.sent = None
          /\ UNCHANGED <<routes, direct_peers, route_cache>>
          /\ UNCHANGED <<replay_data, used_sequences>>
          /\ UNCHANGED <<pending_requests, request_id_counter>>]_vars

\* a disabled node has refused a packet that carried a payment proof
C13_Witness ==
    /\ ~enabled
    /\ mops = MaxMgrOps
    /\ mcall.result = "MeshDisabled"
    /\ mcall.has_proof

\* C14: Free tier bypasses payment: a route_packet call whose payload has
\* policy Free asks neither the replay guard nor the verifier, so it leaves
\* replay_data and used_sequences unchanged even when the packet carries a
\* proof, and when a route and the address of its next peer are found it
\* makes exactly one send_mesh_packet_to_peer call.
C14_FreeTierBypass ==
    [][(mops' = mops + 1 /\ mcall'.op = "route_packet" /\ mcall'.policy = "Free") =>
          /\ mcall'.replay = "none"
          /\ mcall'.verified = "none"
          /\ UNCHANGED <<replay_data, used_sequences>>
          /\ mcall'.resolved => mcall'.sends = 1]_vars

\* ---------------------------------------------------------------- function claims

\* C15: policy table: determine_policy answers for each of the 5 protocols in
\* each of the 3 modes: Free for BitcoinP2P, CommonsGovernance and StratumV2
\* in every mode, PaymentRequired for MeshPacket and Unknown in BitcoinOnly
\* and PaymentGated modes, Free for MeshPacket and Unknown in Open mode.
C15_PolicyTable ==
    fcall.fn = "determine_policy" =>
        /\ fcall.out.policy \in {"Free", "PaymentRequired"}
        /\ fcall.in.protocol \in {"BitcoinP2P", "CommonsGovernance", "StratumV2"}
              => fcall.out.policy = "Free"
        /\ (fcall.in.protocol \in {"MeshPacket", "Unknown"}
              /\ fcall.in.mode \in {"BitcoinOnly", "PaymentGated"})
              => fcall.out.policy = "PaymentRequired"
        /\ (fcall.in.protocol \in {"MeshPacket", "Unknown"} /\ fcall.in.mode = "Open")
              => fcall.out.policy = "Free"

\* determine_policy has answered PaymentRequired for unknown traffic in
\* Bitcoin-only mode
C15_Witness ==
    /\ fcall.fn = "determine_policy"
    /\ fcall.in = [protocol |-> "Unknown", mode |-> "BitcoinOnly"]
    /\ fcall.out.policy = "PaymentRequired"

\* C16: classification reads only a prefix: in every mode, two messages of at
\* least 12 bytes that agree on their first 12 bytes get the same policy from
\* determine_policy(detect_protocol(m)), and every message, the empty one and
\* those shorter than 12 bytes included, gets Free or PaymentRequired.
C16_ClassificationReadsPrefix ==
    fcall.fn = "classify" =>
        /\ fcall.out.first \in {"Free", "PaymentRequired"}
        /\ fcall.out.second \in {"Free", "PaymentRequired"}
        /\ (Len(fcall.in.m1) >= 12 /\ Len(fcall.in.m2) >= 12
              /\ SubSeq(fcall.in.m1, 1, 12) = SubSeq(fcall.in.m2, 1, 12))
              => fcall.out.first = fcall.out.second

\* two messages with a Bitcoin magic and the same 12 first bytes, one of them
\* spelling getheaders over bytes 4..14, were both classified, next to a
\* state where the empty message was
C16_Witness ==
    /\ fcall.fn = "classify"
    /\ Len(fcall.in.m1) = 16 /\ Len(fcall.in.m2) = 13
    /\ SubSeq(fcall.in.m1, 1, 4) \in BitcoinMagics
    /\ SubSeq(fcall.in.m1, 5, 14) = <<103, 101, 116, 104, 101, 97, 100, 101, 114, 115>>
    /\ SubSeq(fcall.in.m1, 1, 12) = SubSeq(fcall.in.m2, 1, 12)
    /\ fcall.out = [first |-> "PaymentRequired", second |-> "PaymentRequired"]

\* C17: codec round trip: for every packet P that passes validate(),
\* serialize_mesh_packet(P) starts with the magic bytes 4D 45 53 48, and
\* deserialize_mesh_packet applied to that output strips the magic and
\* returns a packet equal to P in every field.
C17_CodecRoundTrip ==
    (fcall.fn = "codec" /\ Validate(fcall.in.packet)) =>
        /\ fcall.out.serialized.ok
        /\ SubSeq(fcall.out.serialized.data, 1, 4) = <<77, 69, 83, 72>>
        /\ fcall.out.decoded.ok
        /\ fcall.out.decoded.packet = fcall.in.packet

\* C18: a packet built by MeshPacket::new(packet_type, source, destination,
\* payload), for any packet type and any source and destination (source and
\* destination different included) with a non-empty payload, passes
\* validate() and is accepted by serialize_mesh_packet.
C18_NewPacketValid ==
    (fcall.fn = "new" /\ fcall.in.payload # << >>) =>
        fcall.out.valid /\ fcall.out.serialized

\* C19: fee split: for every base fee F and route length H,
\* calculate_routing_fee gives destination = floor(60F/100), source =
\* floor(10F/100) and a share per intermediate node of
\* floor(floor(30F/100)/(H-2)) when H >= 3 and 0 when H < 3, so that
\* destination + source + (H-2) x intermediate never exceeds F; with F = 1000
\* and H = 3 the result is destination 600, intermediate 300, source 100.
C19_FeeSplit ==
    fcall.fn = "calculate_routing_fee" =>
        LET F == fcall.in.fee
            H == fcall.in.hops
            r == fcall.out
            wide(x) == x \o <<0>>
            shares == IF H > 2 THEN MulCarry(r.intermediate, H - 2, 0) ELSE wide(U64(0))
            sum == SubSeq(AddCarry(SubSeq(AddCarry(wide(r.destination), wide(r.source), 0),
                                          1, 5),
                                   shares, 0), 1, 5)
        IN /\ ~r.panic
           /\ wide(r.destination) = DivSmall(MulCarry(F, 60, 0), 100)
           /\ wide(r.source) = DivSmall(MulCarry(F, 10, 0), 100)
           /\ wide(r.intermediate) =
                 IF H >= 3 THEN DivSmall(DivSmall(MulCarry(F, 30, 0), 100), H - 2)
                 ELSE wide(U64(0))
           /\ Leq(sum, wide(F))
           /\ (F = U64(1000) /\ H = 3) =>
                 /\ r.destination = U64(600)
                 /\ r.intermediate = U64(300)
                 /\ r.source = U64(100)

\* ---------------------------------------------------------------- sweeper claims
\* C20: a pending request does not live for ever: every request whose timeout
\* the clock can still pass is eventually removed, and a request leaves the map
\* only through a matching handle_route_response or through a sweep made when
\* now > timestamp + timeout; a sweep removes exactly the requests with
\* now > timestamp + timeout and keeps the others as they were
C20_PendingRequestsRemoved ==
    /\ \A id \in ReqIds :
          (/\ id \in DOMAIN pending_requests
           /\ pending_requests[id].timestamp + DiscoveryTimeoutSeconds < MaxTime)
             ~> (id \notin DOMAIN pending_requests)
    /\ [][/\ SweeperOp =>
                \A id \in DOMAIN pending_requests :
                    IF now > pending_requests[id].timestamp + DiscoveryTimeoutSeconds
                      THEN id \notin DOMAIN pending_requests'
                      ELSE /\ id \in DOMAIN pending_requests'
                           /\ pending_requests'[id] = pending_requests[id]
          /\ \A id \in (DOMAIN pending_requests) \ (DOMAIN pending_requests') :
                \/ last'.op = "handle_route_response" /\ last'.status = "ok"
                \/ /\ last'.op = "sweeper"
                   /\ now > pending_requests[id].timestamp + DiscoveryTimeoutSeconds]_vars

\* two requests were started and nothing else was called; the sweeper has
\* purged the first, which had timed out, and kept the second, which had not
C20_Witness ==
    /\ last.op = "sweeper"
    /\ rops = 2
    /\ request_id_counter = 2
    /\ DOMAIN pending_requests = {2}
    /\ now <= pending_requests[2].timestamp + DiscoveryTimeoutSeconds

\* ---------------------------------------------------------------- event claims
\* C21: when handle_event processes PeerConnected(addr) right after
\* PeerDisconnected(addr) on an enabled manager, both calls return and the node
\* derive_id(addr) is a direct peer: it is in direct_peers and its routes entry
\* has direct_address = addr bytes, no next_hop and route_path = [derive_id(addr)],
\* whatever the table held for the node before
C21_DisconnectThenConnect ==
    [][\A a \in PeerAddrs :
          (/\ enabled
           /\ evs[2].type = "PeerDisconnected" /\ evs[2].addr = a
           /\ PeerConnectedOp(a, MaxEvents))
            => /\ evs'[1].status = "ok" /\ evs'[2].status = "ok"
               /\ DeriveNodeId(a) \in DOMAIN direct_peers'
               /\ DeriveNodeId(a) \in DOMAIN routes'
               /\ routes'[DeriveNodeId(a)].direct_address = Some(a)
               /\ routes'[DeriveNodeId(a)].next_hop = None
               /\ routes'[DeriveNodeId(a)].route_path = <<DeriveNodeId(a)>>]_vars

\* ---------------------------------------------------------------- sweep claims
\* C22: cleanup_expired collects exactly the hashes with
\* now > timestamp + expiry_seconds, deletes exactly the collected entries from
\* replay_data, keeps the others as they were and leaves used_sequences
\* unchanged for every peer; the passing of time changes no stored sequence
C22_CleanupExpiredFrame ==
    [][/\ \A c \in Callers :
            /\ (pc[c] = "sweep" /\ pc'[c] = "remove")
                 => /\ expired_hashes'[c] =
                          {h \in DOMAIN replay_data :
                              now > replay_data[h].timestamp + ExpirySeconds}
                    /\ replay_data' = replay_data
                    /\ used_sequences' = used_sequences
            /\ (pc[c] = "remove" /\ pc'[c] # "remove")
                 => /\ DOMAIN replay_data' = (DOMAIN replay_data) \ expired_hashes[c]
                    /\ \A h \in expired_hashes[c] \cap DOMAIN replay_data :
                          now > replay_data[h].timestamp + ExpirySeconds
                    /\ \A h \in DOMAIN replay_data' : replay_data'[h] = replay_data[h]
                    /\ used_sequences' = used_sequences
       /\ now' # now => used_sequences' = used_sequences]_vars

\* a standalone sweep has returned after the clock passed the expiry of the
\* only stored hash: the hash is gone, the peer's last sequence is still stored
C22_Witness ==
    /\ ret[1] = "swept"
    /\ now > ExpirySeconds
    /\ replay_data = EmptyMap
    /\ \E p \in Peers : p \in DOMAIN used_sequences /\ used_sequences[p] = accepted_max[p]

\* ---------------------------------------------------------------- verifier claims
\* C23: for every Lightning proof, verify returns the same VerificationResult
\* whether get_payment_state returns a state, returns nothing or fails, and
\* a failure of the host never makes verify return an error
C23_OracleInformational ==
    fcall.fn = "verify"
        => /\ fcall.out.state.ok = fcall.out.none.ok
           /\ fcall.out.state.value = fcall.out.none.value
           /\ fcall.out.error.ok = fcall.out.none.ok
           /\ fcall.out.error.value = fcall.out.none.value
           /\ fcall.out.error.ok

\* verify got as far as the query on a sound proof and answered verified
C23_Witness ==
    /\ fcall.fn = "verify"
    /\ fcall.out.error.queried
    /\ fcall.out.error.ok
    /\ fcall.out.error.value.verified
    /\ fcall.out.error.value.amount = 2

\* C24: for every expired proof, verify returns Ok with verified = false and
\* an error message set, without parsing the invoice or querying the host
C24_ExpiredInBand ==
    (fcall.fn = "verify" /\ fcall.in.t1 > fcall.in.proof.expires_at)
        => \A o \in OracleOutcomes :
              LET r == IF o = "state" THEN fcall.out.state
                       ELSE IF o = "none" THEN fcall.out.none ELSE fcall.out.error
              IN /\ r.ok
                 /\ ~r.value.verified
                 /\ r.value.error # None
                 /\ ~r.parsed
                 /\ ~r.queried

\* verify was called on an expired proof whose invoice, preimage and amount
\* would have passed every other check
C24_Witness ==
    /\ fcall.fn = "verify"
    /\ fcall.in.t1 > fcall.in.proof.expires_at
    /\ fcall.in.proof.invoice.parses
    /\ fcall.in.proof.invoice.payment_hash = Sha256(fcall.in.proof.preimage)
    /\ fcall.in.proof.invoice.amount = Some(fcall.in.proof.amount_msats)
    /\ fcall.out.none.value.error = Some("Payment proof expired")

\* ---------------------------------------------------------------- acceptance claims
\* C25: a check_replay call, after its sweep, fails on the hash exactly when
\* the proof hash is in replay_data, else fails on the sequence exactly when
\* the peer has a stored sequence and the given one is not strictly greater,
\* else fails on expiry exactly when the proof is expired, and else succeeds;
\* on success it stores the hash with (now, peer_id, sequence) and sets
\* used_sequences[peer_id] = sequence, and a failed call changes neither map
C25_AcceptanceCondition ==
    [][\A c \in Callers :
          LET h == ProofHash(args[c].proof)
              peer == args[c].peer
              fresh == h \notin DOMAIN replay_data
              inorder == peer \notin DOMAIN used_sequences
                             \/ args[c].sequence > used_sequences[peer]
              live == ~(now > args[c].proof.expires_at)
          IN /\ (pc[c] = "hash" /\ pc'[c] # pc[c]) =>
                   /\ (ret'[c] = "err_replay" /\ pc'[c] = "idle") <=> ~fresh
                   /\ pc'[c] = "seq" <=> fresh
             /\ (pc[c] = "seq" /\ pc'[c] # pc[c]) =>
                   /\ (ret'[c] = "err_sequence" /\ pc'[c] = "idle") <=> ~inorder
                   /\ pc'[c] = "expiry" <=> inorder
             /\ (pc[c] = "expiry" /\ pc'[c] # pc[c]) =>
                   /\ (ret'[c] = "err_expired" /\ pc'[c] = "idle") <=> ~live
                   /\ pc'[c] = "insert_hash" <=> live
             /\ (pc[c] \in {"hash", "seq", "expiry"} /\ pc'[c] # pc[c])
                   => replay_data' = replay_data /\ used_sequences' = used_sequences
             /\ (pc[c] = "insert_hash" /\ pc'[c] # pc[c]) =>
                   /\ fresh /\ inorder
                   /\ replay_data' = [x \in DOMAIN replay_data \cup {h} |->
                         IF x = h THEN [timestamp |-> now, peer_id |-> peer,
                                        sequence |-> args[c].sequence]
                         ELSE replay_data[x]]
                   /\ used_sequences' = used_sequences
             /\ (pc[c] = "insert_seq" /\ pc'[c] # pc[c]) =>
                   /\ ret'[c] = "ok" /\ pc'[c] = "idle"
                   /\ replay_data' = replay_data
                   /\ h \in DOMAIN replay_data
                   /\ replay_data[h].peer_id = peer
                   /\ replay_data[h].sequence = args[c].sequence
                   /\ replay_data[h].timestamp <= now
                   /\ DOMAIN used_sequences' = DOMAIN used_sequences \cup {peer}
                   /\ \A q \in DOMAIN used_sequences' :
                         used_sequences'[q] = IF q = peer THEN args[c].sequence
                                              ELSE used_sequences[q]
             /\ ret'[c] = "ok" => pc[c] = "insert_seq" \/ ret[c] = "ok"]_vars

\* sequence 0 was accepted from a peer never seen before, and a second call
\* of the same peer with sequence 0 and another, live, unused proof has been
\* rejected on the sequence
C25_Witness ==
    /\ ret[1] = "err_sequence"
    /\ args[1].sequence = 0
    /\ args[1].peer \in DOMAIN used_sequences
    /\ used_sequences[args[1].peer] = 0
    /\ accepted_max[args[1].peer] = 0
    /\ ProofHash(args[1].proof) \notin DOMAIN replay_data
    /\ ~IsExpired(args[1].proof, now)

\* ---------------------------------------------------------------- payment claims
\* C26: whenever route_packet returns an error, the replay guard has taken in
\* no proof hash and holds the same last sequence for every peer as before the
\* call, so that the same proof and sequence can be submitted again
C26_FailedCallKeepsPayment ==
    [][(/\ mops' = mops + 1
        /\ mcall'.op = "route_packet"
        /\ mcall'.result \notin {"Ok", "blocked"})
          => /\ DOMAIN replay_data' \subseteq DOMAIN replay_data
             /\ used_sequences' = used_sequences]_vars

\* ---------------------------------------------------------------- termination claims
\* C27: remove_direct_peer returns for every node id, its routes entry being
\* direct-only or not: no call is left waiting for a shard of routes, and no
\* shard stays locked after the call
C27_RemoveDirectPeerTerminates ==
    /\ last.op = "remove_direct_peer" => last.status = "ok"
    /\ rt_hung = {}

\* ---------------------------------------------------------------- dispatch claims
\* C28: on an enabled manager, handle_incoming_packet of a valid packet
\* (1) delivers locally, sends nothing and returns success when the
\* destination is this node's id, (2) calls forward_packet when the
\* destination is another node and this node's id is in the route, and
\* (3) otherwise drops the packet: success, no send, no state change
C28_IncomingDispatch ==
    [][\A p \in IncomingPackets :
          (/\ enabled /\ mops' # mops
           /\ mcall'.op = "handle_incoming_packet"
           /\ mcall'.has_proof = (p.payment_proof # None)
           /\ (mcall'.sent # None => mcall'.sent[1].route_in = p.route)
           /\ Validate(p) /\ HandleIncomingPacketOp(p))
            => IF p.destination = MyNodeId
                 THEN /\ mcall'.branch = "deliver"
                      /\ mcall'.result = "Ok" /\ mcall'.sends = 0
                      /\ UNCHANGED <<routingVars, replayVars>>
               ELSE IF \E i \in 1..Len(p.route) : p.route[i] = MyNodeId
                 THEN mcall'.branch = "forward"
               ELSE /\ mcall'.branch = "drop"
                    /\ mcall'.result = "Ok" /\ mcall'.sends = 0
                    /\ UNCHANGED <<routingVars, replayVars>>]_vars

\* a valid packet to another node that does not name this node in its
\* route was dropped by an enabled manager
C28_Witness ==
    /\ mcall.op = "handle_incoming_packet"
    /\ mcall.branch = "drop"
    /\ mcall.result = "Ok"
    /\ enabled

\* C29: no unpaid transit: whichever entry point a packet comes in by,
\* route_packet or handle_incoming_packet, a packet whose payload classifies
\* as PaymentRequired under the node's mode is handed to
\* send_mesh_packet_to_peer only after check_replay accepted its proof and
\* verify answered verified in the same call
C29_NoUnpaidTransit ==
    [][\A p \in Packets :
          (/\ mops' # mops
           /\ mcall'.sends = 1
           /\ mcall'.sent[1].route_in = p.route
           /\ DetermineRoutingPolicy(enabled, mode, p.payload) = "PaymentRequired"
           /\ \/ RoutePacketOp(p)
              \/ p \in IncomingPackets /\ HandleIncomingPacketOp(p))
            => /\ mcall'.has_proof
               /\ mcall'.replay = "ok"
               /\ mcall'.verified = "verified"]_vars

\* C30, as stated: whenever forward_packet is called for a destination
\* with no entry in the routing table and no cached route, it fails with
\* RouteNotFound, sends nothing, and a pending discovery request for that
\* destination exists after the call
C30_RouteMissAnyPacket ==
    [][(/\ mops' # mops
        /\ mcall'.fwd # None
        /\ mcall'.fwd[1].destination \notin DOMAIN routes
        /\ mcall'.fwd[1].destination \notin DOMAIN route_cache)
          => /\ mcall'.result = "RouteNotFound"
             /\ mcall'.sends = 0
             /\ \E id \in DOMAIN pending_requests' :
                   pending_requests'[id].destination = mcall'.fwd[1].destination]_vars

\* C30, amended: whenever forward_packet is called with a non-empty payload
\* for a non-zero destination with no entry in the routing table and no
\* cached route, it fails with RouteNotFound, sends nothing, and a pending
\* discovery request for that destination exists after the call
C30_RouteMiss ==
    [][(/\ mops' # mops
        /\ mcall'.fwd # None
        /\ mcall'.fwd[1].payload_len # 0
        /\ mcall'.fwd[1].destination # ZeroNode
        /\ mcall'.fwd[1].destination \notin DOMAIN routes
        /\ mcall'.fwd[1].destination \notin DOMAIN route_cache)
          => /\ mcall'.result = "RouteNotFound"
             /\ mcall'.sends = 0
             /\ \E id \in DOMAIN pending_requests' :
                   /\ id \notin DOMAIN pending_requests
                   /\ pending_requests'[id].destination = mcall'.fwd[1].destination
                   /\ pending_requests'[id].timestamp = now]_vars

\* forward_packet missed: nothing was sent and the request discover_route
\* stored for a destination unknown to table and cache is pending
C30_Witness ==
    /\ mcall.fwd # None
    /\ mcall.fwd[1].payload_len # 0
    /\ mcall.result = "RouteNotFound"
    /\ mcall.sends = 0
    /\ \E id \in DOMAIN pending_requests :
          /\ pending_requests[id].destination = mcall.fwd[1].destination
          /\ pending_requests[id].destination # ZeroNode
          /\ pending_requests[id].destination \notin DOMAIN routes
          /\ pending_requests[id].destination \notin DOMAIN route_cache
          /\ pending_requests[id].timestamp = now

C32_RemoveDirectPeerFrame ==
    [][\A n \in Nodes :
          (rops' # rops /\ last'.op = "remove_direct_peer" /\ last'.node = n)
            => /\ n \notin DOMAIN direct_peers'
               /\ routes' = IF n \in DOMAIN routes /\ IsDirectOnly(routes[n])
                              THEN MapRemove(routes, {n})
                              ELSE routes]_vars

\* C33: after RoutingTable::cleanup_expired run alone (no other call in
\* progress, so none stuck in the table) no entry of routes is both
\* non-pinned and older than the TTL, every pinned entry and every entry with
\* now <= last_updated + ttl is there unchanged, nothing is added, and
\* route_cache is empty
C33_CleanupExpiredPost ==
    [][(rops' # rops /\ last'.op = "cleanup_expired" /\ rt_hung = {})
          => /\ last'.status = "ok"
             /\ \A n \in DOMAIN routes' :
                   ~(/\ ~(routes'[n].direct_address # None /\ routes'[n].next_hop = None)
                     /\ now > routes'[n].last_updated + RouteExpirySeconds)
             /\ \A n \in DOMAIN routes :
                   (\/ routes[n].direct_address # None /\ routes[n].next_hop = None
                    \/ now <= routes[n].last_updated + RouteExpirySeconds)
                     => n \in DOMAIN routes' /\ routes'[n] = routes[n]
             /\ DOMAIN routes' \subseteq DOMAIN routes
             /\ route_cache' = EmptyMap]_vars

\* the sweep removed the stale multi-hop entry added just before it and kept
\* a direct peer older than the TTL
C33_Witness ==
    /\ last.op = "cleanup_expired" /\ last.status = "ok"
    /\ prev.op = "add_route" /\ prev.status = "ok"
    /\ prev.node \notin DOMAIN routes
    /\ \E n \in DOMAIN routes :
          /\ IsDirectOnly(routes[n])
          /\ now > routes[n].last_updated + RouteExpirySeconds
    /\ route_cache = EmptyMap
    /\ rt_hung = {}

\* ---------------------------------------------------------------- discovery handlers
RouteResponses == [destination : Nodes, request_id : ReqIds, route : RoutePaths,
                   cost : Costs]

\* C34: a RouteResponse takes effect at most once per request:
\* handle_route_response changes the routing table only when the response's
\* request_id is pending, and that request is no longer pending afterwards; a
\* response whose request_id is not pending leaves the routing table and the
\* pending requests unchanged
C34_ResponseOncePerRequest ==
    [][\A m \in RouteResponses, from \in Nodes :
          (/\ rops' # rops
           /\ last'.op = "handle_route_response"
           /\ last'.node = m.destination
           /\ HandleRouteResponseOp(m, from))
            => /\ routes' # routes
                   => /\ m.request_id \in DOMAIN pending_requests
                      /\ m.request_id \notin DOMAIN pending_requests'
               /\ m.request_id \notin DOMAIN pending_requests
                   => /\ routes' = routes
                      /\ pending_requests' = pending_requests
               /\ route_cache' = route_cache
               /\ request_id_counter' = request_id_counter]_vars

\* a response installed its route and its request is no longer pending
C34_Witness ==
    /\ last.op = "handle_route_response" /\ last.status = "ok"
    /\ prev.op = "discover_route"
    /\ request_id_counter = 1
    /\ pending_requests = EmptyMap
    /\ last.node \in DOMAIN routes
    /\ routes[last.node].quality_score = 8

\* C35: the handlers compose: every RouteResponse handle_route_request
\* returns, a direct peer's included, carries a route of at least two nodes,
\* so that route[1] in handle_route_response on the requesting node is in
\* range
C35_ResponseRouteHasTwoNodes ==
    (last.op = "handle_route_request" /\ last.res # None) => Len(last.res[1]) >= 2

\* C36: a discovered route is installed only for the destination asked for:
\* whenever handle_route_response inserts an entry into routes, the entry's
\* node_id is the destination of the pending request with the response's
\* request_id
C36_RouteForRequestedDestination ==
    [][\A m \in RouteResponses, from \in Nodes :
          (/\ rops' # rops
           /\ last'.op = "handle_route_response"
           /\ last'.node = m.destination
           /\ routes' # routes
           /\ HandleRouteResponseOp(m, from))
            => /\ m.request_id \in DOMAIN pending_requests
               /\ \A n \in DOMAIN routes' :
                     (n \notin DOMAIN routes \/ routes'[n] # routes[n])
                       => /\ routes'[n].node_id = n
                          /\ n = pending_requests[m.request_id].destination]_vars

\* C37: every discover_route call that finds no route takes a request id
\* greater than every id handed out before on this node, two calls in flight
\* never hold the same id, and when the call returns "no route yet"
\* pending_requests has an entry under that id with the call's destination and
\* source and the time the call read.
C37_FreshRequestIds ==
    /\ [](\A c1 \in Callers, c2 \in Callers :
            (c1 # c2 /\ dr[c1].id # 0 /\ dr[c2].id # 0) => dr[c1].id # dr[c2].id)
    /\ [][\A c \in Callers :
            /\ (dr[c].pc = "missed" /\ dr'[c].pc = "id") =>
                  /\ \A k \in DOMAIN pending_requests : dr'[c].id > k
                  /\ \A c2 \in Callers \ {c} : dr'[c].id > dr[c2].id
            /\ (dr[c].pc = "stamped" /\ dr'[c].pc = "returned") =>
                  /\ dr[c].id \in DOMAIN pending_requests'
                  /\ pending_requests'[dr[c].id].destination = dr[c].destination
                  /\ pending_requests'[dr[c].id].source = dr[c].source
                  /\ pending_requests'[dr[c].id].request_id = dr[c].id
                  /\ pending_requests'[dr[c].id].timestamp >= dr[c].began
                  /\ pending_requests'[dr[c].id].timestamp <= now']_vars

\* two interleaved calls have both returned "no route yet": the call that took
\* the later id read the clock first
C37_Witness ==
    /\ \A c \in Callers : dr[c].pc = "returned"
    /\ dr[1].id # dr[2].id
    /\ dr[1].destination # dr[2].destination
    /\ \A c \in Callers : /\ dr[c].id \in DOMAIN pending_requests
                           /\ pending_requests[dr[c].id].destination = dr[c].destination
    /\ dr[2].timestamp < dr[1].timestamp
    /\ dr[2].id > dr[1].id

\* C38: a handle_route_request that has no route to the requested destination
\* returns a forwarding directive, the request with max_hops one less, when
\* the request has hops left, and returns nothing when it has none.
C38_BoundedPropagation ==
    [][\A req \in RouteRequests, from \in Nodes :
         (/\ rops' # rops
          /\ last'.op = "handle_route_request"
          /\ last'.node = req.destination
          /\ last'.status = "ok"
          /\ HandleRouteRequestOp(req, from)
          /\ FindRoute(route_cache, routes, req.destination, now) = None
          /\ GetRoute(routes, req.destination) = None) =>
            LET r == HandleRouteRequest(route_cache, routes, req, now)
            IN IF req.max_hops > 0
                 THEN /\ r # None
                      /\ r[1].destination = req.destination
                      /\ r[1].request_id = req.request_id
                      /\ "max_hops" \in DOMAIN r[1]
                      /\ r[1].max_hops = req.max_hops - 1
                 ELSE r = None]_vars

\* C39: the replay check never waits on I/O: no task holds the Mutex of the
\* replay guard while it is suspended on the host's get_payment_state or on
\* another lock, in route_packet and in the cleanup task, so a task asking
\* for the Mutex never waits behind a host query or another lock.
C39_ReplayLockNotHeldAcrossAwait ==
    /\ \A t \in Tasks : lk.at[t] \in {"verify", "pending"} => lk.holder # t
    /\ \A t \in Tasks :
          (lk.at[t] = "lock" /\ lk.holder # 0) => lk.at[lk.holder] \notin {"verify", "pending"}

\* C40: a rejected check_replay records nothing: a call that returns an
\* error (hash already used, sequence not strictly greater, proof expired) has
\* inserted no entry into replay_data and has left used_sequences as it was
\* for every peer; all it can have changed is replay_data, by the removal of
\* expired entries in its initial sweep. Every error is returned from one of
\* the three checks, and no step of the call up to and including them writes
\* anything but those removals.
C40_RejectedCallRecordsNothing ==
    [][\A c \in Callers :
          (args[c].op = "check_replay" /\ pc'[c] # pc[c]) =>
             /\ (pc'[c] = "idle" /\ ret'[c] \in {"err_replay", "err_sequence", "err_expired"})
                   => pc[c] \in {"hash", "seq", "expiry"}
             /\ pc[c] \in {"hash", "seq", "expiry"} => replay_data' = replay_data
             /\ pc[c] \in {"sweep", "remove", "hash", "seq", "expiry"} =>
                   /\ used_sequences' = used_sequences
                   /\ DOMAIN replay_data' \subseteq DOMAIN replay_data
                   /\ \A h \in DOMAIN replay_data' : replay_data'[h] = replay_data[h]
                   /\ \A h \in DOMAIN replay_data \ DOMAIN replay_data' :
                         now > replay_data[h].timestamp + ExpirySeconds]_vars

\* the second of two calls has been rejected on the sequence after its sweep
\* removed the hash the first call had stored: the peer's sequence is kept
C40_Witness ==
    /\ calls = 2
    /\ pc[1] = "idle"
    /\ args[1].op = "check_replay"
    /\ ret[1] = "err_sequence"
    /\ replay_data = EmptyMap
    /\ args[1].peer \in DOMAIN used_sequences
    /\ used_sequences[args[1].peer] = accepted_max[args[1].peer]

====
